---- MODULE Spec2Model ----
(***************************************************************************)
(* Neural Flock traffic simulator: NetworkEngine (grid generation and BFS  *)
(* path search), SimulationEngine (run lifecycle, per-tick update, spawn / *)
(* respawn) and PhysicsEngine (acceleration, braking, fuel).               *)
(*                                                                         *)
(* Node ids `n_${x}_${y}` are modelled as the pair <<x, y>>.  The value    *)
(* null of the source is NULL, the empty sequence: no function of the      *)
(* source returns an empty array where it can return null.                 *)
(***************************************************************************)
EXTENDS Integers, Sequences, FiniteSets, TLC

VARIABLES
    network,        \* NetworkEngine.network: [nodes, edges, bounds]
    nodeMap,        \* NetworkEngine.nodeMap: id -> RoadNode
    adjacencyList,  \* NetworkEngine.adjacencyList: id -> sequence of ids
    config,         \* SimulationEngine.config
    vehicles,       \* SimulationEngine.vehicles
    isRunning,      \* SimulationEngine.isRunning
    currentTime,    \* SimulationEngine.currentTime, a binary64 value
    animationId,    \* SimulationEngine.animationId; NoFrame is null
    lastUpdateTime, \* SimulationEngine.lastUpdateTime, ms
    pending,        \* host: the requestAnimationFrame callbacks not yet run,
                    \* each [id, loop]: its handle and the start() call whose
                    \* `loop` closure it is
    nextFrameId,    \* host: the next requestAnimationFrame handle
    now,            \* host: the timestamp of the last frame, ms
    runs,           \* the number of start() calls that began a run
    ticks,          \* run -> ticks its loop has executed
    updates,        \* run -> onUpdate calls its loop has made (per tick)
    initialUpdates, \* run -> onUpdate calls start() has made (0 or 1)
    completions,    \* run -> onComplete calls
    batch,          \* host: the callbacks of the animation frame being
                    \* run that are still to be called
    stopped,        \* the runs during which the caller or an observer
                    \* called stop() while the engine was running
    result,         \* the result bundle of the last onComplete call
    physCalls,      \* the number of PhysicsEngine calls made on the vehicles
    spatialGrid,    \* FlockingEngine.spatialGrid: cell -> indices of vehicles
    lastNeighbors,  \* the getNeighbors call just made: arguments and result
    coherenceMatrix,\* QuantumOptimizer.coherenceMatrix, in thousandths
    lastWeights,    \* the optimizeParameters call just made
    lastPath,       \* the findShortestPath call just made: its arguments and result
    lastOp          \* the last call into the engine or the physics

netVars == <<network, nodeMap, adjacencyList>>
engVars == <<vehicles, isRunning, currentTime, animationId, lastUpdateTime>>
hostVars == <<pending, nextFrameId, now, batch>>
histVars == <<runs, ticks, updates, initialUpdates, completions, stopped, result>>
flockVars == <<spatialGrid, lastNeighbors>>
optVars == <<coherenceMatrix, lastWeights>>
simVars == <<config, vehicles, isRunning, currentTime, animationId, lastUpdateTime,
            pending, nextFrameId, now, batch, runs, ticks, updates,
            initialUpdates, completions, stopped>>
vars == <<network, nodeMap, adjacencyList, config, vehicles, isRunning,
          currentTime, animationId, lastUpdateTime, pending, nextFrameId, now,
          batch, runs, ticks, updates, initialUpdates, completions, stopped, result, physCalls, spatialGrid,
          lastNeighbors, coherenceMatrix, lastWeights, lastPath, lastOp>>

-----------------------------------------------------------------------------
(* Bounds of the model *)

MaxWidth == 4       \* generateUrbanNetwork is called with width  in 0..MaxWidth
MaxHeight == 2      \* and height in 0..MaxHeight
GridSize == 2       \* and this gridSize
MaxRuns == 2        \* start() begins at most MaxRuns runs on one engine
FrameMs == 50       \* the host runs an animation frame every FrameMs ms
FleetCount == 1     \* config.fleetMix asks for FleetCount vehicles of each type
MaxPhysicsCalls == 1 \* PhysicsEngine methods are called at most this often
FlockSize == 2      \* the vehicles handed to the FlockingEngine
LiveTicks == 3      \* the clock and the readings of an unending run are followed this far

NULL == <<>>

Min(a, b) == IF a < b THEN a ELSE b
Max(a, b) == IF a > b THEN a ELSE b

-----------------------------------------------------------------------------
(* NetworkEngine *)

\* The ids any caller may pass: every id a generated network can hold and
\* ids no network holds.
NodeIds == (0 .. (MaxWidth \div GridSize) + 1) \X (0 .. (MaxHeight \div GridSize) + 1)

EmptyNetwork ==
    [nodes |-> <<>>, edges |-> <<>>,
     bounds |-> [minLat |-> 0, maxLat |-> 0, minLng |-> 0, maxLng |-> 0]]

EmptyMap == [id \in {} |-> NULL]

\* The state of a NetworkEngine after construction.
NewNetworkEngine ==
    [network |-> EmptyNetwork, nodeMap |-> EmptyMap, adjacencyList |-> EmptyMap]

\* The RoadNode the grid loop creates at (x, y); light = the Math.random()
\* < 0.15 draw came out true for it (its cycle duration is not modelled).
GridNode(x, y, nodesX, nodesY, gridSize, lights) ==
    LET isBorder == x = 0 \/ x = nodesX \/ y = 0 \/ y = nodesY
    IN  [id |-> <<x, y>>,
         position |-> [x |-> x * gridSize, y |-> y * gridSize],
         type |-> IF isBorder
                    THEN (IF (x + y) % 2 = 0 THEN "entry" ELSE "exit")
                    ELSE "intersection",
         trafficLight |-> (~isBorder /\ <<x, y>> \in lights)]

\* for y in 0..nodesY, for x in 0..nodesX: the nodes in push order.
GridNodes(nodesX, nodesY, gridSize, lights) ==
    [k \in 1 .. (nodesX + 1) * (nodesY + 1) |->
        GridNode((k - 1) % (nodesX + 1), (k - 1) \div (nodesX + 1),
                 nodesX, nodesY, gridSize, lights)]

\* createEdge: no edge unless both ends are in the node map.
createEdge(nm, edges, fromId, toId) ==
    IF fromId \notin DOMAIN nm \/ toId \notin DOMAIN nm
      THEN edges
      ELSE Append(edges, [id |-> <<fromId, toId>>, from |-> fromId, to |-> toId,
                          oneWay |-> FALSE])

RECURSIVE CreateEdges(_, _, _, _)
\* createEdge over a sequence of <<fromId, toId>> pairs, in order.
CreateEdges(nm, edges, pairs, k) ==
    IF k > Len(pairs) THEN edges
    ELSE CreateEdges(nm, createEdge(nm, edges, pairs[k][1], pairs[k][2]), pairs, k + 1)

\* The three edge loops of generateUrbanNetwork, as <<from, to>> pairs in
\* creation order; diag = the cells whose Math.random() < 0.2 draw was true.
HorizontalPairs(nodesX, nodesY) ==
    [k \in 1 .. nodesX * (nodesY + 1) |->
        LET x == (k - 1) % nodesX
            y == (k - 1) \div nodesX
        IN  << <<x, y>>, <<x + 1, y>> >>]

VerticalPairs(nodesX, nodesY) ==
    [k \in 1 .. (nodesX + 1) * nodesY |->
        LET y == (k - 1) % nodesY
            x == (k - 1) \div nodesY
        IN  << <<x, y>>, <<x, y + 1>> >>]

DiagonalPairs(nodesX, nodesY, diag) ==
    SelectSeq([k \in 1 .. nodesX * nodesY |->
                  LET x == (k - 1) % nodesX
                      y == (k - 1) \div nodesX
                  IN  << <<x, y>>, <<x + 1, y + 1>> >>],
              LAMBDA p : p[1] \in diag)

RECURSIVE AddEdges(_, _, _)
\* The edge loop of buildAdjacencyList: edge.to is appended to the list of
\* edge.from unless it is already there.
AddEdges(adj, edges, k) ==
    IF k > Len(edges) THEN adj
    ELSE LET e == edges[k]
             neighbors == IF e.from \in DOMAIN adj THEN adj[e.from] ELSE <<>>
         IN  IF \E i \in DOMAIN neighbors : neighbors[i] = e.to
               THEN AddEdges(adj, edges, k + 1)
               ELSE AddEdges([id \in DOMAIN adj \cup {e.from} |->
                                 IF id = e.from THEN Append(neighbors, e.to)
                                 ELSE adj[id]],
                             edges, k + 1)

buildAdjacencyList(net) ==
    AddEdges([id \in {net.nodes[i].id : i \in DOMAIN net.nodes} |-> <<>>],
             net.edges, 1)

\* generateUrbanNetwork on an engine whose node map is nm: the new engine.
\* The node map is written with set() and never cleared.
generateUrbanNetwork(nm, width, height, gridSize, lights, diag) ==
    LET nodesX == width \div gridSize
        nodesY == height \div gridSize
        nodes  == GridNodes(nodesX, nodesY, gridSize, lights)
        nm2    == [id \in DOMAIN nm \cup {nodes[i].id : i \in DOMAIN nodes} |->
                      IF \E i \in DOMAIN nodes : nodes[i].id = id
                        THEN nodes[CHOOSE i \in DOMAIN nodes : nodes[i].id = id]
                        ELSE nm[id]]
        e1     == CreateEdges(nm2, <<>>, HorizontalPairs(nodesX, nodesY), 1)
        e2     == CreateEdges(nm2, e1, VerticalPairs(nodesX, nodesY), 1)
        e3     == CreateEdges(nm2, e2, DiagonalPairs(nodesX, nodesY, diag), 1)
        net    == [nodes |-> nodes, edges |-> e3,
                   bounds |-> [minLat |-> 0, maxLat |-> height,
                               minLng |-> 0, maxLng |-> width]]
    IN  [network |-> net, nodeMap |-> nm2, adjacencyList |-> buildAdjacencyList(net)]

RECURSIVE ScanNeighbors(_, _, _, _, _, _)
\* for (const neighbor of neighbors): returns at the target, else enqueues
\* every neighbor not yet visited.
ScanNeighbors(neighbors, k, path, toId, queue, visited) ==
    IF k > Len(neighbors)
      THEN [found |-> FALSE, path |-> NULL, queue |-> queue, visited |-> visited]
    ELSE IF neighbors[k] = toId
      THEN [found |-> TRUE, path |-> Append(path, neighbors[k]),
            queue |-> queue, visited |-> visited]
    ELSE IF neighbors[k] \notin visited
      THEN ScanNeighbors(neighbors, k + 1, path, toId,
                         Append(queue, [nodeId |-> neighbors[k],
                                        path |-> Append(path, neighbors[k])]),
                         visited \cup {neighbors[k]})
    ELSE ScanNeighbors(neighbors, k + 1, path, toId, queue, visited)

RECURSIVE BfsLoop(_, _, _, _)
\* while (queue.length > 0) { shift; scan the neighbors }
BfsLoop(adj, queue, visited, toId) ==
    IF Len(queue) = 0 THEN NULL
    ELSE LET head == Head(queue)
             neighbors == IF head.nodeId \in DOMAIN adj THEN adj[head.nodeId] ELSE <<>>
             r == ScanNeighbors(neighbors, 1, head.path, toId, Tail(queue), visited)
         IN  IF r.found THEN r.path ELSE BfsLoop(adj, r.queue, r.visited, toId)

findShortestPath(nm, adj, fromId, toId) ==
    IF fromId \notin DOMAIN nm \/ toId \notin DOMAIN nm THEN NULL
    ELSE IF fromId = toId THEN <<fromId>>
    ELSE BfsLoop(adj, << [nodeId |-> fromId, path |-> <<fromId>>] >>, {fromId}, toId)

\* No findShortestPath call has been made.
NoPath == [fromId |-> <<0, 0>>, toId |-> <<0, 0>>, path |-> NULL, asked |-> FALSE]

getNode(nm, id) == IF id \in DOMAIN nm THEN nm[id] ELSE NULL

-----------------------------------------------------------------------------
(* Numbers *)

\* Lengths are held in 1/PosScale simulation units and speeds in
\* 1/SpeedScale simulation units per second, so that maxSpeed / 25 and
\* maxSpeed / 36 (kmhToUnits) are both whole.  distanceTraveled is held in
\* 1/(10 * SpeedScale) units and fuelConsumed in 1/(2000 * SpeedScale)
\* litres, so that `+= speed * 0.1` and `+= speed * 0.0005` add the number
\* speed.  Quotients round toward zero where the source rounds to nearest.
PosScale == 10 * 10
SpeedScale == 25 * 36 * 10

Quot(a, b) == IF a >= 0 THEN a \div b ELSE -((-a) \div b)
Abs(a) == IF a >= 0 THEN a ELSE -a

RECURSIVE SqrtIn(_, _, _)
\* Math.sqrt(n) rounded down, known to be at least lo and at most hi.
SqrtIn(n, lo, hi) ==
    LET mid == (lo + hi + 1) \div 2
    IN  IF lo >= hi THEN lo
        ELSE IF mid * mid > n THEN SqrtIn(n, lo, mid - 1) ELSE SqrtIn(n, mid, hi)
\* Math.sqrt, rounded down; est is a lower bound of the root and at least
\* half of it.
Sqrt(n, est) == SqrtIn(n, est, 2 * est + 1)

\* A binary64 value v, 0 <= v < 8, that is a multiple of 2^-55, is the pair
\* [hi, lo] with v = (hi * 2^28 + lo) * 2^-55 and lo < 2^28.  Such a value
\* has 53 significant bits: below 2^53 units every multiple is a value, from
\* 2^(53+s) units on only the multiples of 2^(s+1) are.
Two28 == 2 ^ 28
DblZero == [hi |-> 0, lo |-> 0]
DblTenth == [hi |-> 13421772, lo |-> 214748365]     \* the literal 0.1
DblOf(tenths) ==                                     \* the literals 0.1 * tenths used below
    CASE tenths = 3  -> [hi |-> 40265318, lo |-> 107374182]
      [] tenths = 5  -> [hi |-> 67108864, lo |-> 0]
      [] tenths = 10 -> [hi |-> 134217728, lo |-> 0]
      [] tenths = 20 -> [hi |-> 268435456, lo |-> 0]

\* Round hi * 2^28 + lo to 53 significant bits, to nearest, ties to even.
DblRound(hi, lo) ==
    LET shift == IF hi < 2 ^ 25 THEN 0 ELSE IF hi < 2 ^ 26 THEN 1
                 ELSE IF hi < 2 ^ 27 THEN 2 ELSE IF hi < 2 ^ 28 THEN 3
                 ELSE IF hi < 2 ^ 29 THEN 4 ELSE 5
        q    == 2 ^ shift
        r    == lo % q
        down == lo - r
        up   == r * 2 > q \/ (r * 2 = q /\ (down \div q) % 2 = 1)
        lo2  == IF up THEN down + q ELSE down
    IN  IF lo2 >= Two28 THEN [hi |-> hi + 1, lo |-> lo2 - Two28]
        ELSE [hi |-> hi, lo |-> lo2]

\* a + b in binary64.
DblAdd(a, b) ==
    LET lo == a.lo + b.lo
    IN  DblRound(a.hi + b.hi + lo \div Two28, lo % Two28)

\* a >= b
DblGeq(a, b) == a.hi > b.hi \/ (a.hi = b.hi /\ a.lo >= b.lo)

-----------------------------------------------------------------------------
(* types/index.ts *)

\* VEHICLE_TYPES[type].physics; maxAcceleration, maxBraking, turningRadius
\* and length in tenths, dragCoefficient in hundredths.
VEHICLE_TYPES ==
    [sedan |-> [maxSpeed |-> 60, maxAcceleration10 |-> 25, maxBraking10 |-> 60,
                turningRadius10 |-> 55, length10 |-> 45, mass |-> 1500,
                dragCoefficient100 |-> 30, flockingBehavior |-> "normal"],
     bike  |-> [maxSpeed |-> 40, maxAcceleration10 |-> 40, maxBraking10 |-> 80,
                turningRadius10 |-> 25, length10 |-> 20, mass |-> 200,
                dragCoefficient100 |-> 60, flockingBehavior |-> "aggressive"],
     auto  |-> [maxSpeed |-> 45, maxAcceleration10 |-> 18, maxBraking10 |-> 45,
                turningRadius10 |-> 40, length10 |-> 32, mass |-> 800,
                dragCoefficient100 |-> 50, flockingBehavior |-> "conservative"],
     truck |-> [maxSpeed |-> 50, maxAcceleration10 |-> 10, maxBraking10 |-> 35,
                turningRadius10 |-> 120, length10 |-> 120, mass |-> 15000,
                dragCoefficient100 |-> 70, flockingBehavior |-> "conservative"],
     bus   |-> [maxSpeed |-> 45, maxAcceleration10 |-> 8, maxBraking10 |-> 30,
                turningRadius10 |-> 110, length10 |-> 100, mass |-> 12000,
                dragCoefficient100 |-> 65, flockingBehavior |-> "conservative"]]

VehicleTypes == <<"sedan", "bike", "auto", "truck", "bus">>

\* WEATHER_CONDITIONS[w].friction, in hundredths.
WEATHER_CONDITIONS ==
    [clear |-> [friction100 |-> 100], rain |-> [friction100 |-> 70],
     fog |-> [friction100 |-> 85]]

-----------------------------------------------------------------------------
(* Angles, in milliradians *)

PiMrad == 3142
HalfPiMrad == (PiMrad + 1) \div 2

\* atan(a / b) for 0 <= a <= b, b > 0.
AtanUnit(a, b) ==
    LET r == (1000 * a) \div b
    IN  (r * (785 + (273 * (1000 - r)) \div 1000)) \div 1000

\* Math.atan2(y, x), to a few milliradians.
Atan2(y, x) ==
    IF x = 0 /\ y = 0 THEN 0
    ELSE LET ax   == Abs(x)
             ay   == Abs(y)
             base == IF ay <= ax THEN AtanUnit(ay, ax) ELSE HalfPiMrad - AtanUnit(ax, ay)
             q    == IF x >= 0 THEN base ELSE PiMrad - base
         IN  IF y >= 0 THEN q ELSE -q

RECURSIVE normalizeAngle(_)
\* while (angle > PI) angle -= 2 PI; while (angle < -PI) angle += 2 PI
normalizeAngle(angle) ==
    IF angle > PiMrad THEN normalizeAngle(angle - 2 * PiMrad)
    ELSE IF angle < -PiMrad THEN normalizeAngle(angle + 2 * PiMrad)
    ELSE angle

\* 1000 * cos(x) for 0 <= x <= PI / 2.
CosUnit(x) ==
    LET x2 == (x \div 10) * (x \div 10)
    IN  Max(0, (1000 * (98696 - 4 * x2)) \div (98696 + x2))

\* 1000 * Math.cos(angle), 1000 * Math.sin(angle), to a few thousandths.
Cos1000(angle) ==
    LET a == Abs(normalizeAngle(angle))
    IN  IF a <= HalfPiMrad THEN CosUnit(a) ELSE -CosUnit(PiMrad - a)

Sin1000(angle) == Cos1000(angle - HalfPiMrad)

-----------------------------------------------------------------------------
(* SimulationEngine: vehicles *)

UPDATE_INTERVAL == 100
maxAttempts == 200
PerTypeLimit == 30
DefaultCounts == <<25, 20, 15, 12, 8>>
NoFrame == 0

Range(seq) == {seq[i] : i \in DOMAIN seq}

\* network.nodes.filter(n => n.type === 'entry')
EntryNodes == SelectSeq(network.nodes, LAMBDA n : n.type = "entry")

\* network.nodes.filter(n => n.id !== entry.id), as the set a random index
\* picks from.
ExitsFor(entry) == {n \in Range(network.nodes) : n.id # entry.id}

\* The vehicle createVehicles pushes.  waitTime, eta and flockingParams are
\* set here and never written again; they are left out.
NewVehicle(id, type, entry, route) ==
    LET t == (VEHICLE_TYPES[type].maxSpeed * SpeedScale) \div 25
    IN  [id |-> id, type |-> type,
         position |-> [x |-> entry.position.x * PosScale,
                       y |-> entry.position.y * PosScale],
         velocity |-> [vx |-> 0, vy |-> 0, speed |-> 0, heading |-> 0],
         acceleration |-> [ax |-> 0, ay |-> 0],
         targetSpeed |-> IF t = 0 THEN 2 * SpeedScale ELSE t,
         route |-> route, currentEdgeIndex |-> 0, state |-> "moving",
         fuelConsumed |-> 0, distanceTraveled |-> 0]

\* counts[t] = fleetMix[type] || default, then Math.min(counts[t], 30).
TypeCount(cfg, t) ==
    LET c == cfg.fleetMix[VehicleTypes[t]]
    IN  Min(IF c = 0 THEN DefaultCounts[t] ELSE c, PerTypeLimit)

\* The two nested creation loops, as one loop over [t, i, attempts, id,
\* vehicles]; t counts from 1.
CreateDone(s) == s.t > Len(VehicleTypes) \/ s.attempts >= maxAttempts

\* A pass of the inner loop body that does not count the id up.
CreateAttemptSameId(s, entry, exit) ==
    LET route == findShortestPath(nodeMap, adjacencyList, entry.id, exit.id)
    IN  IF route = NULL \/ Len(route) < 2
          THEN [s EXCEPT !.attempts = @ + 1, !.i = @ + 1]
          ELSE [s EXCEPT !.attempts = @ + 1, !.i = @ + 1,
                         !.vehicles = Append(@, NewVehicle(s.id, VehicleTypes[s.t],
                                                           entry, route))]

\* One pass of the inner loop body, exit being the random exit it drew.
CreateAttempt(s, entry, exit) ==
    LET route == findShortestPath(nodeMap, adjacencyList, entry.id, exit.id)
    IN  IF route = NULL \/ Len(route) < 2
          THEN [s EXCEPT !.attempts = @ + 1, !.i = @ + 1]
          ELSE [s EXCEPT !.attempts = @ + 1, !.i = @ + 1, !.id = @ + 1,
                         !.vehicles = Append(@, NewVehicle(s.id, VehicleTypes[s.t],
                                                           entry, route))]

\* The loop states one step of the creation loops can lead to from s.
CreateNext(s, cfg, entries) ==
    IF s.i >= TypeCount(cfg, s.t) THEN {[s EXCEPT !.t = @ + 1, !.i = 0]}
    ELSE LET entry == entries[(s.id % Len(entries)) + 1]
         IN  IF ExitsFor(entry) = {}
               THEN {[s EXCEPT !.attempts = @ + 1, !.i = @ + 1]}
               ELSE {CreateAttempt(s, entry, exit) : exit \in ExitsFor(entry)}

RECURSIVE CreateStates(_, _, _)
\* The loop states the creation loops can end in from the loop states S.
CreateStates(S, cfg, entries) ==
    IF \A s \in S : CreateDone(s) THEN S
    ELSE CreateStates(UNION {IF CreateDone(s) THEN {s} ELSE CreateNext(s, cfg, entries)
                             : s \in S},
                      cfg, entries)

CreateRun(S, cfg, entries) == {s.vehicles : s \in CreateStates(S, cfg, entries)}

\* The loop state createVehicles() begins with.
CreateStart == [t |-> 1, i |-> 0, attempts |-> 0, id |-> 0, vehicles |-> <<>>]

\* createVehicles(): the loop states it can return in, over its random
\* draws; the early returns leave the loops unentered.
createLoop(cfg) ==
    IF Len(network.nodes) = 0 THEN {CreateStart}
    ELSE IF Len(EntryNodes) = 0 THEN {CreateStart}
    ELSE CreateStates({CreateStart}, cfg, EntryNodes)

\* createVehicles(): the arrays it can return, over its random draws.
createVehicles(cfg) ==
    IF Len(network.nodes) = 0 THEN {<<>>}
    ELSE IF Len(EntryNodes) = 0 THEN {<<>>}
    ELSE CreateRun({CreateStart}, cfg, EntryNodes)

\* A respawnVehicle that resets the fuel along with the distance.
respawnResettingFuel(v, entry, exit) ==
    LET route == findShortestPath(nodeMap, adjacencyList, entry.id, exit.id)
    IN  IF route # NULL /\ Len(route) >= 2
          THEN [v EXCEPT !.position = [x |-> entry.position.x * PosScale,
                                       y |-> entry.position.y * PosScale],
                         !.route = route,
                         !.currentEdgeIndex = 0,
                         !.distanceTraveled = 0,
                         !.fuelConsumed = 0]
          ELSE v

\* A respawnVehicle that resets the distance before it looks for a path.
respawnResettingDistance(v, entry, exit) ==
    LET route == findShortestPath(nodeMap, adjacencyList, entry.id, exit.id)
        v0 == [v EXCEPT !.distanceTraveled = 0]
    IN  IF route # NULL /\ Len(route) >= 2
          THEN [v0 EXCEPT !.position = [x |-> entry.position.x * PosScale,
                                        y |-> entry.position.y * PosScale],
                          !.route = route,
                          !.currentEdgeIndex = 0]
          ELSE v0

\* A respawnVehicle that keeps the index into the old route.
respawnKeepingIndex(v, entry, exit) ==
    LET route == findShortestPath(nodeMap, adjacencyList, entry.id, exit.id)
    IN  IF route # NULL /\ Len(route) >= 2
          THEN [v EXCEPT !.position = [x |-> entry.position.x * PosScale,
                                       y |-> entry.position.y * PosScale],
                         !.route = route,
                         !.distanceTraveled = 0]
          ELSE v

\* A respawnVehicle that never finds a path.
respawnNever(v, entry, exit) == v

\* A respawnVehicle that leaves the vehicle where it stands.
respawnKeepingPosition(v, entry, exit) ==
    LET route == findShortestPath(nodeMap, adjacencyList, entry.id, exit.id)
    IN  IF route # NULL /\ Len(route) >= 2
          THEN [v EXCEPT !.route = route,
                         !.currentEdgeIndex = 0,
                         !.distanceTraveled = 0]
          ELSE v

\* respawnVehicle(v, entries) once entry and exit are drawn.
respawnVehicle(v, entry, exit) ==
    LET route == findShortestPath(nodeMap, adjacencyList, entry.id, exit.id)
    IN  IF route # NULL /\ Len(route) >= 2
          THEN [v EXCEPT !.position = [x |-> entry.position.x * PosScale,
                                       y |-> entry.position.y * PosScale],
                         !.route = route,
                         !.currentEdgeIndex = 0,
                         !.distanceTraveled = 0]
          ELSE v

\* respawnVehicle(v, entries): the vehicles it can leave, over its draws.
Respawns(v, entries) ==
    IF Len(entries) = 0 THEN {v}
    ELSE UNION {IF ExitsFor(entry) = {} THEN {v}
                ELSE {respawnVehicle(v, entry, exit) : exit \in ExitsFor(entry)}
                : entry \in Range(entries)}

\* this.config.weather === 'clear' ? 1 : 0.7, in tenths.
weatherMultiplier10(cfg) == IF cfg.weather = "clear" THEN 10 ELSE 7

\* The tail of the loop body of update(): heading, speed, velocity,
\* position, distance and fuel of a vehicle dx, dy away from its target.
Drive(v, dx, dy, cfg) ==
    LET dist  == Sqrt(dx * dx + dy * dy, Max(Abs(dx), Abs(dy)))
        s     == (v.targetSpeed * weatherMultiplier10(cfg)) \div 10
        speed == IF s = 0 THEN SpeedScale ELSE s
        vx    == Quot(dx * speed, dist)
        vy    == Quot(dy * speed, dist)
    IN  [v EXCEPT !.velocity = [vx |-> vx, vy |-> vy, speed |-> speed,
                                heading |-> Atan2(dy, dx)],
                  !.position = [x |-> v.position.x + Quot(vx * PosScale, 10 * SpeedScale),
                                y |-> v.position.y + Quot(vy * PosScale, 10 * SpeedScale)],
                  !.distanceTraveled = @ + speed,
                  !.fuelConsumed = @ + speed]

\* A loop body of update() that burns fuel in the tick a vehicle arrives at
\* a node.
UpdateVehicleBurning(v, entries, cfg) ==
    IF v.currentEdgeIndex >= Len(v.route) - 1 THEN Respawns(v, entries)
    ELSE LET targetId == v.route[v.currentEdgeIndex + 2]
         IN  IF targetId \notin DOMAIN nodeMap THEN Respawns(v, entries)
             ELSE LET targetNode == nodeMap[targetId]
                      dx == targetNode.position.x * PosScale - v.position.x
                      dy == targetNode.position.y * PosScale - v.position.y
                  IN  IF 4 * (dx * dx + dy * dy) < 9 * PosScale * PosScale
                        THEN LET v2 == [v EXCEPT !.currentEdgeIndex = @ + 1,
                                                 !.fuelConsumed = @ + 1]
                             IN  IF v2.currentEdgeIndex >= Len(v2.route) - 1
                                   THEN Respawns(v2, entries)
                                   ELSE {v2}
                        ELSE {Drive(v, dx, dy, cfg)}

\* The loop body of update() for one vehicle: the vehicles it can leave.
\* (A vehicle and its route are never null in the array.)
UpdateVehicle(v, entries, cfg) ==
    IF v.currentEdgeIndex >= Len(v.route) - 1 THEN Respawns(v, entries)
    ELSE LET targetId == v.route[v.currentEdgeIndex + 2]
         IN  IF targetId \notin DOMAIN nodeMap THEN Respawns(v, entries)
             ELSE LET targetNode == nodeMap[targetId]
                      dx == targetNode.position.x * PosScale - v.position.x
                      dy == targetNode.position.y * PosScale - v.position.y
                  IN  IF 4 * (dx * dx + dy * dy) < 9 * PosScale * PosScale
                        THEN LET v2 == [v EXCEPT !.currentEdgeIndex = @ + 1]
                             IN  IF v2.currentEdgeIndex >= Len(v2.route) - 1
                                   THEN Respawns(v2, entries)
                                   ELSE {v2}
                        ELSE {Drive(v, dx, dy, cfg)}

RECURSIVE UpdateFrom(_, _, _)
UpdateFrom(vs, k, cfg) ==
    IF k > Len(vs) THEN {vs}
    ELSE UNION {UpdateFrom([vs EXCEPT ![k] = v2], k + 1, cfg)
                : v2 \in UpdateVehicle(vs[k], EntryNodes, cfg)}

\* update(): the vehicle arrays it can leave.
update(vs, cfg) == UpdateFrom(vs, 1, cfg)

-----------------------------------------------------------------------------
(* SimulationEngine: the run *)

\* The engine, the host's frame queue and the observers' counts, as one
\* value the methods below map to the next one.  threw: the call ended in
\* an exception thrown to its caller.
EngineState ==
    [vehicles |-> vehicles, isRunning |-> isRunning, currentTime |-> currentTime,
     animationId |-> animationId, lastUpdateTime |-> lastUpdateTime,
     pending |-> pending, nextFrameId |-> nextFrameId,
     runs |-> runs, ticks |-> ticks, updates |-> updates,
     initialUpdates |-> initialUpdates, completions |-> completions,
     stopped |-> stopped, result |-> result, threw |-> FALSE]

\* this.animationId = requestAnimationFrame(loop), loop being the closure
\* of run r.
ScheduleLoop(e, r) ==
    [e EXCEPT !.pending = @ \cup {[id |-> e.nextFrameId, loop |-> r]},
              !.animationId = e.nextFrameId,
              !.nextFrameId = @ + 1]

\* A stop() that reports completion to the observer when it ends a run.
stopCompleting(e) ==
    [e EXCEPT !.isRunning = FALSE,
              !.pending = IF e.animationId # NoFrame
                            THEN {f \in @ : f.id # e.animationId} ELSE @,
              !.animationId = NoFrame,
              !.completions = [r \in DOMAIN @ |->
                                  IF e.isRunning /\ r = e.runs THEN @[r] + 1 ELSE @[r]]]

\* stop()
stop(e) ==
    [e EXCEPT !.isRunning = FALSE,
              !.pending = IF e.animationId # NoFrame
                            THEN {f \in @ : f.id # e.animationId} ELSE @,
              !.animationId = NoFrame]

\* stop() called by the caller or by an observer.
CallStop(e) ==
    [stop(e) EXCEPT !.stopped = IF e.isRunning THEN @ \cup {e.runs} ELSE @]

\* What an observer callback does when it is called.
InitialCallbacks == {"return", "throw", "stop"}
UpdateCallbacks == {"return", "throw", "stop", "restart"}
CompleteCallbacks == {"return", "throw", "start"}

\* A start() without the `if (this.isRunning) return` guard: a call on a
\* running engine begins the run again.
startUnguarded(e, vs, cb) ==
    LET r  == IF e.isRunning THEN e.runs ELSE e.runs + 1
        e1 == [e EXCEPT !.isRunning = TRUE, !.currentTime = DblZero,
                        !.lastUpdateTime = 0, !.vehicles = vs, !.runs = r]
        e2 == IF Len(vs) > 0
                THEN [(IF cb = "stop" THEN CallStop(e1) ELSE e1)
                        EXCEPT !.initialUpdates[r] = @ + 1]
                ELSE e1
    IN  IF Len(vs) > 0 /\ cb = "throw"
          THEN [e2 EXCEPT !.threw = TRUE]
          ELSE ScheduleLoop(e2, r)

\* start(onUpdate, onComplete); vs is what createVehicles() returns and cb
\* what the initial onUpdate call does.
start(e, vs, cb) ==
    IF e.isRunning THEN e
    ELSE LET r  == e.runs + 1
             e1 == [e EXCEPT !.isRunning = TRUE, !.currentTime = DblZero,
                             !.lastUpdateTime = 0, !.vehicles = vs, !.runs = r]
             e2 == IF Len(vs) > 0
                     THEN [(IF cb = "stop" THEN CallStop(e1) ELSE e1)
                             EXCEPT !.initialUpdates[r] = @ + 1]
                     ELSE e1
         IN  IF Len(vs) > 0 /\ cb = "throw"
               THEN [e2 EXCEPT !.threw = TRUE]
               ELSE ScheduleLoop(e2, r)

\* The per-tick onUpdate call, inside try / catch: whatever the observer
\* throws is caught.  vsNew is what createVehicles() returns if the observer
\* calls start().
OnUpdate(e, cb, vsNew) ==
    CASE cb = "stop"    -> CallStop(e)
      [] cb = "restart" -> [start(CallStop(e), vsNew, "return") EXCEPT !.threw = FALSE]
      [] OTHER          -> e

\* The onComplete call, inside try / catch.
OnComplete(e, cb, vsNew) ==
    IF cb = "start" THEN [start(e, vsNew, "return") EXCEPT !.threw = FALSE] ELSE e

RECURSIVE SumSeq(_)
\* The sum of a sequence of numbers.
SumSeq(seq) == IF seq = <<>> THEN 0 ELSE Head(seq) + SumSeq(Tail(seq))

\* getMetrics(): the fields that are not constants.  speed * 25 * 3.6 is
\* held in hundredths, which is the speed in its own unit.
getMetrics(e) ==
    LET count == Len(e.vehicles)
    IN  IF count = 0
          THEN [timestamp |-> e.currentTime, activeVehicles |-> 0, averageSpeed |-> 0,
                totalDistance |-> 0, fuelConsumed |-> 0, throughput |-> 0]
          ELSE [timestamp |-> e.currentTime,
                activeVehicles |-> count,
                averageSpeed |-> SumSeq([k \in DOMAIN e.vehicles |-> e.vehicles[k].velocity.speed])
                                    \div count,
                totalDistance |-> SumSeq([k \in DOMAIN e.vehicles |-> e.vehicles[k].distanceTraveled]),
                fuelConsumed |-> SumSeq([k \in DOMAIN e.vehicles |-> e.vehicles[k].fuelConsumed]),
                throughput |-> count * 10]

\* getResult(): the end time, the metrics history and the final metrics of
\* the bundle (the id, the ROI figures and the comparison are left out).
getResult(e) ==
    [endTime |-> e.currentTime, metrics |-> <<>>, finalMetrics |-> getMetrics(e)]

\* No onComplete call has been made.
NoResult ==
    [endTime |-> DblZero, metrics |-> <<>>, finalMetrics |-> getMetrics([vehicles |-> <<>>, currentTime |-> DblZero])]

\* loop(timestamp) of run r; vs2 is what update() leaves in this.vehicles.
loop(e, r, timestamp, vs2, cbU, cbC, vsNew, cfg) ==
    IF ~e.isRunning THEN e
    ELSE IF timestamp - e.lastUpdateTime >= UPDATE_INTERVAL
      THEN LET e1 == [e EXCEPT !.lastUpdateTime = timestamp,
                               !.vehicles = vs2,
                               !.currentTime = DblAdd(@, DblTenth),
                               !.ticks[r] = @ + 1]
               e2 == OnUpdate([e1 EXCEPT !.updates[r] = @ + 1], cbU, vsNew)
           IN  IF DblGeq(e2.currentTime, cfg.duration.dbl)
                 THEN OnComplete([stop(e2) EXCEPT !.completions[r] = @ + 1,
                                                  !.result = getResult(stop(e2))],
                                 cbC, vsNew)
                 ELSE ScheduleLoop(e2, r)
      ELSE ScheduleLoop(e, r)

Commit(e) ==
    /\ vehicles' = e.vehicles
    /\ isRunning' = e.isRunning
    /\ currentTime' = e.currentTime
    /\ animationId' = e.animationId
    /\ lastUpdateTime' = e.lastUpdateTime
    /\ pending' = e.pending
    /\ nextFrameId' = e.nextFrameId
    /\ runs' = e.runs
    /\ ticks' = e.ticks
    /\ updates' = e.updates
    /\ initialUpdates' = e.initialUpdates
    /\ completions' = e.completions
    /\ stopped' = e.stopped
    /\ result' = e.result

\* The caller calls start().
Start ==
    /\ batch = {}
    /\ ~isRunning => runs < MaxRuns
    /\ \E vs \in createVehicles(config), cb \in InitialCallbacks :
         LET e == start(EngineState, vs, cb)
         IN  /\ Commit(e)
             /\ lastOp' = IF e.threw THEN "startThrew" ELSE "start"
    /\ UNCHANGED <<netVars, config, now, batch, physCalls, lastPath, flockVars, optVars>>

\* The caller calls stop().
Stop ==
    /\ batch = {}
    /\ Commit(CallStop(EngineState))
    /\ lastOp' = "stop"
    /\ UNCHANGED <<netVars, config, now, batch, physCalls, lastPath, flockVars, optVars>>

\* The host runs one callback of an animation frame: the callbacks pending
\* when the frame begins are called in the order they were requested, all
\* with the frame's timestamp, unless cancelled before their turn.  The
\* observers behave as UCbs (onUpdate) and CCbs (onComplete) allow; an input
\* the callback does not read is not enumerated.
FrameWith(UCbs, CCbs) ==
    /\ batch # {} \/ pending # {}
    /\ LET cur == IF batch = {} THEN pending ELSE batch
           ts  == IF batch = {} THEN now + FrameMs ELSE now
           f   == CHOOSE g \in cur : \A h \in cur : g.id <= h.id
           e0  == [EngineState EXCEPT !.pending = @ \ {f}]
           due == isRunning /\ ts - lastUpdateTime >= UPDATE_INTERVAL
           end == due /\ DblGeq(DblAdd(currentTime, DblTenth), config.duration.dbl)
       IN  \E vs2 \in (IF due THEN update(vehicles, config) ELSE {vehicles}),
              cbU \in (IF due THEN UCbs ELSE {"return"}),
              cbC \in (IF end THEN CCbs ELSE {"return"}) :
             \E vsNew \in (IF cbU = "restart" \/ cbC = "start"
                             THEN createVehicles(config) ELSE {<<>>}) :
               /\ (cbU = "restart" \/ cbC = "start") => runs < MaxRuns
               /\ LET e == loop(e0, f.loop, ts, vs2, cbU, cbC, vsNew, config)
                  IN  /\ Commit(e)
                      /\ batch' = {g \in cur \ {f} : g \in e.pending}
               /\ now' = ts
               /\ lastOp' = "frame"
    /\ UNCHANGED <<netVars, config, physCalls, lastPath, flockVars, optVars>>

\* Observers that return, throw or call stop().
Frame == FrameWith({"return", "throw", "stop"}, {"return", "throw"})

-----------------------------------------------------------------------------
(* PhysicsEngine, with timeStep = 0.1 and scale = 10 *)

\* kmhToUnits(kmh) = (kmh * 1000 / 3600) / scale
kmhToUnits(kmh) == (kmh * SpeedScale) \div 36

\* unitsToKmh(units) = units * scale * 3.6, in hundredths of a km/h.
unitsToKmh100(units) == (units * 36 * 100) \div SpeedScale

\* speed * this.scale, in tenths of a m/s.
SpeedMs10(speed) == (speed * 100) \div SpeedScale

\* calculateMaxAcceleration: 0.5 * 1.225 * 2.5 = 49 / 32.
calculateMaxAcceleration(vehicle, speed) ==
    LET physics        == VEHICLE_TYPES[vehicle.type]
        dragForce      == (49 * physics.dragCoefficient100 * SpeedMs10(speed)
                              * SpeedMs10(speed)) \div 320000
        maxForce       == (physics.mass * physics.maxAcceleration10) \div 10
        availableForce == Max(0, maxForce - dragForce)
    IN  (availableForce * (SpeedScale \div 100)) \div physics.mass

\* calculateMaxTurnRate, in milliradians.
calculateMaxTurnRate(vehicle, speed) ==
    LET physics == VEHICLE_TYPES[vehicle.type]
        speedMs10 == SpeedMs10(speed)
    IN  IF speedMs10 < 1 THEN PiMrad \div 4
        ELSE Min(4000 \div speedMs10, (speedMs10 * 100) \div physics.turningRadius10)

\* The per-type base consumption, in hundredths.
BaseConsumption100(type) ==
    CASE type = "bike" -> 2 [] type = "auto" -> 4 [] type = "sedan" -> 8
      [] type = "bus" -> 25 [] type = "truck" -> 35

\* updateFuelConsumption: the consumption it adds to vehicle.fuelConsumed.
FuelConsumption(vehicle, acceleration) ==
    LET ratio1000       == (unitsToKmh100(vehicle.velocity.speed) * 10) \div 60
        speedFactor1000 == 500 + (ratio1000 * ratio1000) \div 2000
        accelFactor1000 == 1000 + (acceleration * 10 * 1000) \div SpeedScale
        idleFactor10    == IF vehicle.state = "stopped" THEN 1 ELSE 10
        c == ((BaseConsumption100(vehicle.type) * speedFactor1000 * accelFactor1000)
                 \div 1000) * idleFactor10
    IN  (c * (SpeedScale \div 100)) \div 50

updateFuelConsumption(vehicle, acceleration) ==
    [vehicle EXCEPT !.fuelConsumed = @ + FuelConsumption(vehicle, acceleration)]

\* applyAcceleration(vehicle, desiredSpeed, targetHeading)
applyAcceleration(vehicle, desiredSpeed, targetHeading) ==
    LET physics       == VEHICLE_TYPES[vehicle.type]
        currentSpeed  == vehicle.velocity.speed
        speedDiff     == desiredSpeed - currentSpeed
        maxAccel      == calculateMaxAcceleration(vehicle, currentSpeed)
        maxBrake      == (physics.maxBraking10 * SpeedScale) \div 1000
        acceleration  == IF speedDiff > 0 THEN Min(speedDiff, maxAccel)
                         ELSE IF speedDiff < 0 THEN Max(speedDiff, -maxBrake)
                         ELSE 0
        state         == IF speedDiff > 0 THEN "accelerating"
                         ELSE IF speedDiff < 0 THEN "braking" ELSE "moving"
        newSpeed      == Max(0, currentSpeed + acceleration)
        clampedSpeed  == Min(newSpeed, kmhToUnits(physics.maxSpeed))
        headingDiff   == normalizeAngle(targetHeading - vehicle.velocity.heading)
        maxTurnRate   == calculateMaxTurnRate(vehicle, clampedSpeed)
        actualHeadingDiff == Max(-maxTurnRate, Min(maxTurnRate, headingDiff))
        newHeading    == vehicle.velocity.heading + actualHeadingDiff
        vx            == Quot(Cos1000(newHeading) * clampedSpeed, 1000)
        vy            == Quot(Sin1000(newHeading) * clampedSpeed, 1000)
        v2 == [vehicle EXCEPT
                 !.state = state,
                 !.velocity = [vx |-> vx, vy |-> vy, speed |-> clampedSpeed,
                               heading |-> newHeading],
                 !.acceleration =
                     [ax |-> (vx - Quot(Cos1000(newHeading) * currentSpeed, 1000)) * 10,
                      ay |-> (vy - Quot(Sin1000(newHeading) * currentSpeed, 1000)) * 10]]
    IN  updateFuelConsumption(v2, Abs(acceleration))

\* applyBraking(vehicle, stopDistance), stopDistance in metres: the vehicle
\* it leaves (its return value is not modelled).
applyBraking(vehicle, stopDistance) ==
    LET physics   == VEHICLE_TYPES[vehicle.type]
        speedMs10 == SpeedMs10(vehicle.velocity.speed)
    IN  IF speedMs10 * speedMs10 >= (stopDistance - 2) * 20 * physics.maxBraking10
          THEN LET brakeAccel == -((physics.maxBraking10 * SpeedScale) \div 1000)
                   newSpeed   == Max(0, vehicle.velocity.speed + brakeAccel)
               IN  [vehicle EXCEPT
                      !.velocity = [@ EXCEPT
                          !.speed = newSpeed,
                          !.vx = Quot(Cos1000(vehicle.velocity.heading) * newSpeed, 1000),
                          !.vy = Quot(Sin1000(vehicle.velocity.heading) * newSpeed, 1000)],
                      !.state = "braking"]
          ELSE vehicle

\* updatePosition(vehicle)
updatePosition(vehicle) ==
    [vehicle EXCEPT
       !.position = [x |-> @.x + Quot(vehicle.velocity.vx * PosScale, 10 * SpeedScale),
                     y |-> @.y + Quot(vehicle.velocity.vy * PosScale, 10 * SpeedScale)],
       !.distanceTraveled = @ + vehicle.velocity.speed * 10]

\* The arguments the physics methods are called with: a standstill, half the
\* type's top speed and a speed above every type's; four headings; stopping
\* distances that do and do not call for braking.
DesiredSpeeds(v) ==
    {0, kmhToUnits(VEHICLE_TYPES[v.type].maxSpeed) \div 2, 3 * SpeedScale}
TargetHeadings == {0, HalfPiMrad, PiMrad, -HalfPiMrad}
StopDistances == {0, 1000}

PhysicsCall(i, v2, op) ==
    /\ batch = {}
    /\ physCalls < MaxPhysicsCalls
    /\ vehicles' = [vehicles EXCEPT ![i] = v2]
    /\ physCalls' = physCalls + 1
    /\ lastOp' = op
    /\ UNCHANGED <<netVars, config, isRunning, currentTime, animationId,
                   lastUpdateTime, hostVars, histVars, lastPath, flockVars,
                   optVars>>

\* A caller holding the vehicle array (getVehicles(), or the array an
\* onUpdate call received) runs a PhysicsEngine method on one vehicle.
ApplyAcceleration ==
    \E i \in DOMAIN vehicles :
      \E desiredSpeed \in DesiredSpeeds(vehicles[i]), targetHeading \in TargetHeadings :
        PhysicsCall(i, applyAcceleration(vehicles[i], desiredSpeed, targetHeading),
                    "applyAcceleration")

ApplyBraking ==
    \E i \in DOMAIN vehicles, stopDistance \in StopDistances :
      PhysicsCall(i, applyBraking(vehicles[i], stopDistance), "applyBraking")

UpdatePosition ==
    \E i \in DOMAIN vehicles :
      PhysicsCall(i, updatePosition(vehicles[i]), "updatePosition")

-----------------------------------------------------------------------------
(* Initial states *)

Duration(tenths) == [tenths |-> tenths, dbl |-> DblOf(tenths)]

\* The configurations a run is checked with: duration 0.3 or 1.0, any
\* weather, FleetCount vehicles of every type, flocking enabled or not and
\* the flocking parameters of the application's default configuration
\* (weights in hundredths).
Configs ==
    [duration : {Duration(3), Duration(10)},
     weather : {"clear", "rain", "fog"},
     fleetMix : {[sedan |-> FleetCount, bike |-> FleetCount, auto |-> FleetCount,
                  truck |-> FleetCount, bus |-> FleetCount]},
     enableFlocking : BOOLEAN,
     flockingParams : {[cohesionWeight |-> 100, alignmentWeight |-> 80,
                        separationWeight |-> 120, perceptionRadius |-> 35]}]

\* A SimulationEngine after construction, its host and its observers.
NewEngineState ==
    [vehicles |-> <<>>, isRunning |-> FALSE, currentTime |-> DblZero,
     animationId |-> NoFrame, lastUpdateTime |-> 0,
     pending |-> {}, nextFrameId |-> 1,
     runs |-> 0, ticks |-> [r \in 1 .. MaxRuns |-> 0],
     updates |-> [r \in 1 .. MaxRuns |-> 0],
     initialUpdates |-> [r \in 1 .. MaxRuns |-> 0],
     completions |-> [r \in 1 .. MaxRuns |-> 0],
     stopped |-> {}, result |-> NoResult, threw |-> FALSE]

\* The engine, the queue and the counts are those of e.
EngineIs(e) ==
    /\ vehicles = e.vehicles
    /\ isRunning = e.isRunning
    /\ currentTime = e.currentTime
    /\ animationId = e.animationId
    /\ lastUpdateTime = e.lastUpdateTime
    /\ pending = e.pending
    /\ nextFrameId = e.nextFrameId
    /\ runs = e.runs
    /\ ticks = e.ticks
    /\ updates = e.updates
    /\ initialUpdates = e.initialUpdates
    /\ completions = e.completions
    /\ stopped = e.stopped
    /\ result = e.result

-----------------------------------------------------------------------------
(* FlockingEngine: the spatial grid and the neighbour query              *)

\* FlockingEngine.gridSize = 10 simulation units, in the unit of positions
\* (NetworkEngine has a parameter of the same name).
FlockGridSize == 10 * PosScale

\* Math.ceil(a / b) for b > 0.
CeilDiv(a, b) == -((-a) \div b)

\* getGridKey(position): the cell <<gx, gy>> in place of the string "gx,gy".
getGridKey(position) == <<position.x \div FlockGridSize, position.y \div FlockGridSize>>

\* A Map with no entry.
EmptyGrid == [c \in {} |-> <<>>]

\* buildSpatialGrid(vehicles): the map is cleared and every vehicle is pushed
\* on the array of its cell, in array order.  A cell holds the vehicle
\* objects themselves, here their indices in the array.
buildSpatialGrid(vs) ==
    [c \in {getGridKey(vs[k].position) : k \in DOMAIN vs} |->
        SelectSeq([k \in DOMAIN vs |-> k], LAMBDA k : getGridKey(vs[k].position) = c)]

\* clearSpatialGrid()
clearSpatialGrid == EmptyGrid

\* The square of PhysicsEngine.distance(p1, p2).
Distance2(p1, p2) == (p2.x - p1.x) * (p2.x - p1.x) + (p2.y - p1.y) * (p2.y - p1.y)

\* The test of getNeighbors on one member of a cell: another id, and a
\* distance that is at most the radius and more than 0.
IsNeighbor(vs, i, j, radius) ==
    /\ vs[j].id # vs[i].id
    /\ Distance2(vs[i].position, vs[j].position) <= radius * radius
    /\ Distance2(vs[i].position, vs[j].position) > 0

\* PhysicsEngine.distance(p1, p2), rounded down to the unit of positions.
Distance(p1, p2) ==
    SqrtIn(Distance2(p1, p2), 0, Abs(p2.x - p1.x) + Abs(p2.y - p1.y))

\* The NeighborInfo pushed for vehicle j.
NeighborInfo(vs, i, j) ==
    [vehicle |-> j,
     distance |-> Distance(vs[i].position, vs[j].position),
     relativeVelocity |-> [vx |-> vs[j].velocity.vx - vs[i].velocity.vx,
                           vy |-> vs[j].velocity.vy - vs[i].velocity.vy]]

RECURSIVE ScanCells(_, _, _, _, _, _)
\* The two loops over dx and dy of getNeighbors from the k-th of the
\* (2 * gridRadius + 1)^2 cells on, dx being the outer loop.
ScanCells(grid, vs, i, radius, gridRadius, k) ==
    LET side == 2 * gridRadius + 1
        center == getGridKey(vs[i].position)
        gridKey == <<center[1] - gridRadius + ((k - 1) \div side),
                     center[2] - gridRadius + ((k - 1) % side)>>
        cell == IF gridKey \in DOMAIN grid THEN grid[gridKey] ELSE <<>>
        kept == SelectSeq(cell, LAMBDA j : IsNeighbor(vs, i, j, radius))
    IN  IF side <= 0 \/ k > side * side
          THEN <<>>
          ELSE [n \in DOMAIN kept |-> NeighborInfo(vs, i, kept[n])]
                 \o ScanCells(grid, vs, i, radius, gridRadius, k + 1)

\* getNeighbors(vehicle, radius) for the vehicle vs[i].
getNeighbors(grid, vs, i, radius) ==
    ScanCells(grid, vs, i, radius, CeilDiv(radius, FlockGridSize), 1)

\* Math.sqrt(a * a + b * b), rounded down.
Hypot(a, b) ==
    SqrtIn(a * a + b * b, Max(Abs(a), Abs(b)), Min(Abs(a) + Abs(b), 46340))

\* adjustPerceptionRadius(type, baseRadius) / baseRadius, in tenths.
adjustPerceptionRadius10(type) ==
    CASE VEHICLE_TYPES[type].flockingBehavior = "aggressive"   -> 7
      [] VEHICLE_TYPES[type].flockingBehavior = "conservative" -> 13
      [] OTHER                                                 -> 10

\* getTypeWeights(type, baseWeights): base weights in hundredths, the
\* result in thousandths.
getTypeWeights(type, baseWeights) ==
    CASE VEHICLE_TYPES[type].flockingBehavior = "aggressive" ->
           [cohesion |-> baseWeights.cohesion * 8,
            alignment |-> baseWeights.alignment * 6,
            separation |-> baseWeights.separation * 15]
      [] VEHICLE_TYPES[type].flockingBehavior = "conservative" ->
           [cohesion |-> baseWeights.cohesion * 12,
            alignment |-> baseWeights.alignment * 13,
            separation |-> baseWeights.separation * 12]
      [] OTHER ->
           [cohesion |-> baseWeights.cohesion * 10,
            alignment |-> baseWeights.alignment * 10,
            separation |-> baseWeights.separation * 10]

\* getMinSeparation(type1, type2) = (length1 + length2) / scale + 1, in the
\* unit of positions.
getMinSeparation(type1, type2) ==
    VEHICLE_TYPES[type1].length10 + VEHICLE_TYPES[type2].length10 + PosScale

\* calculateCohesion(vehicle, neighbors): sx, sy are n times the offset of
\* the neighbours' average position; an offset below 0.001 gives no force.
calculateCohesion(vs, i, neighbors) ==
    LET n  == Len(neighbors)
        sx == SumSeq([k \in DOMAIN neighbors |-> vs[neighbors[k].vehicle].position.x])
                - n * vs[i].position.x
        sy == SumSeq([k \in DOMAIN neighbors |-> vs[neighbors[k].vehicle].position.y])
                - n * vs[i].position.y
        maxSpeed == kmhToUnits(VEHICLE_TYPES[vs[i].type].maxSpeed)
    IN  IF n = 0 THEN [vx |-> 0, vy |-> 0]
        ELSE IF Abs(sx) < n /\ Abs(sy) < n /\ 100 * (sx * sx + sy * sy) < n * n
          THEN [vx |-> 0, vy |-> 0]
          ELSE [vx |-> Quot(sx * (maxSpeed \div 10), Hypot(sx, sy)),
                vy |-> Quot(sy * (maxSpeed \div 10), Hypot(sx, sy))]

\* calculateAlignment(vehicle, neighbors)
calculateAlignment(vs, i, neighbors) ==
    LET n   == Len(neighbors)
        svx == SumSeq([k \in DOMAIN neighbors |-> vs[neighbors[k].vehicle].velocity.vx])
        svy == SumSeq([k \in DOMAIN neighbors |-> vs[neighbors[k].vehicle].velocity.vy])
    IN  IF n = 0 THEN [vx |-> 0, vy |-> 0]
        ELSE [vx |-> Quot(svx - n * vs[i].velocity.vx, 10 * n),
              vy |-> Quot(svy - n * vs[i].velocity.vy, 10 * n)]

\* The term one neighbour adds to sepX (c = "x") or sepY (c = "y") in
\* calculateSeparation, in the unit of speeds.
SeparationTerm(vs, i, neighbor, c) ==
    LET j  == neighbor.vehicle
        d  == IF c = "x" THEN vs[i].position.x - vs[j].position.x
                         ELSE vs[i].position.y - vs[j].position.y
        distance == neighbor.distance
        minSeparation == getMinSeparation(vs[i].type, vs[j].type)
    IN  IF Distance2(vs[i].position, vs[j].position) = 0 THEN 0
        ELSE IF Distance2(vs[i].position, vs[j].position) < minSeparation * minSeparation
          THEN Quot(d * (minSeparation - distance) * SpeedScale,
                    Max(distance, 1) * minSeparation)
          ELSE 0

\* calculateSeparation(vehicle, neighbors)
calculateSeparation(vs, i, neighbors) ==
    [vx |-> 2 * SumSeq([k \in DOMAIN neighbors |-> SeparationTerm(vs, i, neighbors[k], "x")]),
     vy |-> 2 * SumSeq([k \in DOMAIN neighbors |-> SeparationTerm(vs, i, neighbors[k], "y")])]

\* applyFlocking(vehicle, allVehicles, weights, perceptionRadius) for the
\* vehicle vs[i]: the spatial grid it leaves, the neighbours it kept and
\* what it returns.  perceptionRadius is in the unit of positions.
applyFlocking(grid, vs, i, weights, perceptionRadius) ==
    LET grid2 == IF DOMAIN grid = {} THEN buildSpatialGrid(vs) ELSE grid
        neighbors == getNeighbors(grid2, vs, i, perceptionRadius)
        a10 == adjustPerceptionRadius10(vs[i].type)
        filteredNeighbors ==
            SelectSeq(neighbors,
                      LAMBDA n : 100 * Distance2(vs[i].position, vs[n.vehicle].position)
                                   <= a10 * a10 * perceptionRadius * perceptionRadius)
        cohesion == calculateCohesion(vs, i, filteredNeighbors)
        alignment == calculateAlignment(vs, i, filteredNeighbors)
        separation == calculateSeparation(vs, i, filteredNeighbors)
        typeWeights == getTypeWeights(vs[i].type, weights)
        force(c) == Quot(cohesion[c] * typeWeights.cohesion
                           + alignment[c] * typeWeights.alignment
                           + separation[c] * typeWeights.separation, 1000)
        desiredVx == vs[i].velocity.vx + (IF Len(filteredNeighbors) > 0 THEN force("vx") ELSE 0)
        desiredVy == vs[i].velocity.vy + (IF Len(filteredNeighbors) > 0 THEN force("vy") ELSE 0)
    IN  [spatialGrid |-> grid2,
         neighbors |-> filteredNeighbors,
         desiredVelocity |-> [vx |-> desiredVx, vy |-> desiredVy],
         desiredSpeed |-> Min(Hypot(desiredVx, desiredVy),
                              kmhToUnits(VEHICLE_TYPES[vs[i].type].maxSpeed))]

\* No query has been answered.
NoNeighbors == [vehicle |-> 0, radius |-> 0, neighbors |-> <<>>]

-----------------------------------------------------------------------------
(* QuantumOptimizer, with numbers in thousandths *)

\* The default of the constructor's nQubits.
nQubits == 4

\* initializeCoherenceMatrix(): 1 on the diagonal and Math.random() * 0.3
\* elsewhere, here the draw a above the diagonal and b below it.
initializeCoherenceMatrix(a, b) ==
    [i \in 1 .. nQubits |->
       [j \in 1 .. nQubits |-> IF i = j THEN 1000 ELSE IF i < j THEN a ELSE b]]

\* The draws of Math.random() * 0.3 the matrix is checked with.
CoherenceDraws == {0, 150, 299}

\* createQuantumState(trafficDensity, averageSpeed)
createQuantumState(trafficDensity, averageSpeed) ==
    LET normalizedDensity == Min(1000, trafficDensity * 10)
        normalizedSpeed   == Min(1000, (averageSpeed * 1000) \div 60)
    IN  <<normalizedDensity, normalizedSpeed,
          1000 - normalizedDensity, 1000 - normalizedSpeed>>

\* applyInterference(stateVector): sin(v * PI + i * PI / 4) * 0.5 with i
\* counted from 0.
applyInterference(matrix, stateVector) ==
    [i \in 1 .. nQubits |->
       LET v == SumSeq([j \in 1 .. nQubits |-> matrix[i][j] * stateVector[j]]) \div 1000
       IN  Quot(Sin1000((v * PiMrad) \div 1000 + ((i - 1) * PiMrad) \div 4), 2)]

\* Math.max(0.5, Math.min(3, x))
ClampWeight(x) == Max(500, Min(3000, x))

\* An optimizeParameters that returns the adjusted weights as they are.
optimizeUnclamped(matrix, baseWeights, trafficDensity, averageSpeed) ==
    LET interference == applyInterference(matrix,
                                          createQuantumState(trafficDensity, averageSpeed))
    IN  [cohesion |-> Quot(baseWeights.cohesion * (10000 + interference[1] * 3), 10000),
         alignment |-> Quot(baseWeights.alignment * (10000 + interference[2] * 3), 10000),
         separation |-> Quot(baseWeights.separation * (10000 + interference[3] * 3), 10000)]

\* optimizeParameters(baseWeights, trafficDensity, averageSpeed)
optimizeParameters(matrix, baseWeights, trafficDensity, averageSpeed) ==
    LET interference == applyInterference(matrix,
                                          createQuantumState(trafficDensity, averageSpeed))
        optimized ==
          [cohesion |-> Quot(baseWeights.cohesion * (10000 + interference[1] * 3), 10000),
           alignment |-> Quot(baseWeights.alignment * (10000 + interference[2] * 3), 10000),
           separation |-> Quot(baseWeights.separation * (10000 + interference[3] * 3), 10000)]
    IN  [cohesion |-> ClampWeight(optimized.cohesion),
         alignment |-> ClampWeight(optimized.alignment),
         separation |-> ClampWeight(optimized.separation)]

\* updateCoherence(metrics): flow and congestion in hundredths.
updateCoherence(matrix, metrics) ==
    LET feedback == (metrics.flow * 1000) \div (metrics.congestion + 100)
        delta    == Quot(feedback - 500, 100)
    IN  [i \in 1 .. nQubits |->
           [j \in 1 .. nQubits |->
              IF i = j THEN matrix[i][j]
              ELSE Max(0, Min(1000, matrix[Min(i, j)][Max(i, j)] + delta))]]

\* The matrix of the optimizer where no optimizer is looked at.
InitialCoherence == initializeCoherenceMatrix(0, 0)

\* optimizeParameters has not returned since the matrix last changed.
NoWeights == [cohesion |-> 0, alignment |-> 0, separation |-> 0]

\* new FlockingEngine() and new QuantumOptimizer(): an empty spatial grid, no
\* query answered, the initial coherence matrix and no weights returned.
NewFlocking ==
    /\ spatialGrid = EmptyGrid
    /\ lastNeighbors = NoNeighbors
    /\ coherenceMatrix = InitialCoherence
    /\ lastWeights = NoWeights

NewEngine ==
    /\ EngineIs(NewEngineState)
    /\ now = 0
    /\ batch = {}
    /\ physCalls = 0
    /\ NewFlocking
    /\ lastPath = NoPath
    /\ lastOp = "new"

-----------------------------------------------------------------------------
(* NetworkEngine alone: any sequence of generateUrbanNetwork calls *)

InitNet ==
    /\ network = NewNetworkEngine.network
    /\ nodeMap = NewNetworkEngine.nodeMap
    /\ adjacencyList = NewNetworkEngine.adjacencyList
    /\ config \in {c \in Configs : c.duration.tenths = 3 /\ c.weather = "clear"
                                      /\ c.enableFlocking}
    /\ NewEngine

Cells(width, height, gridSize) ==
    (0 .. (width \div gridSize) - 1) \X (0 .. (height \div gridSize) - 1)

Interior(width, height, gridSize) ==
    (1 .. (width \div gridSize) - 1) \X (1 .. (height \div gridSize) - 1)

GenerateUrbanNetwork ==
    /\ \E width \in 0 .. MaxWidth, height \in 0 .. MaxHeight :
         \E lights \in SUBSET Interior(width, height, GridSize),
            diag \in SUBSET Cells(width, height, GridSize) :
           LET r == generateUrbanNetwork(nodeMap, width, height, GridSize, lights, diag)
           IN  /\ network' = r.network
               /\ nodeMap' = r.nodeMap
               /\ adjacencyList' = r.adjacencyList
    /\ lastOp' = "generateUrbanNetwork"
    /\ lastPath' = NoPath
    /\ UNCHANGED <<config, engVars, hostVars, histVars, physCalls, flockVars, optVars>>

FindShortestPath ==
    /\ \E fromId \in NodeIds, toId \in NodeIds :
         lastPath' = [fromId |-> fromId, toId |-> toId, asked |-> TRUE,
                      path |-> findShortestPath(nodeMap, adjacencyList, fromId, toId)]
    /\ lastOp' = "findShortestPath"
    /\ UNCHANGED <<netVars, config, engVars, hostVars, histVars, physCalls, flockVars,
                   optVars>>

NextNet == GenerateUrbanNetwork \/ FindShortestPath

SpecNet == InitNet /\ [][NextNet]_vars

-----------------------------------------------------------------------------
(* A SimulationEngine on a network generated once, or never: its caller *)
(* starts and stops it and the host runs its frames                      *)

\* The engines the run is checked on: a NetworkEngine on which
\* generateUrbanNetwork was never called, and the grid of one cell column
\* and no cell row (nodes n_0_0, an entry, and n_1_0, an exit).
SimNetworks ==
    {NewNetworkEngine, generateUrbanNetwork(EmptyMap, GridSize, 0, GridSize, {}, {})}

Init ==
    /\ \E n \in SimNetworks :
         /\ network = n.network
         /\ nodeMap = n.nodeMap
         /\ adjacencyList = n.adjacencyList
    /\ config \in {c \in Configs : c.weather = "clear" /\ c.enableFlocking}
    /\ NewEngine

Next == Start \/ Stop \/ Frame

Spec == Init /\ [][Next]_vars

-----------------------------------------------------------------------------
(* start() under fleet mixes that leave types out or ask for more than   *)
(* the limit of a type                                                   *)

\* The fleet mixes: no, one or more than PerTypeLimit sedans, and no or one
\* vehicle of every other type.
FleetMixes ==
    [sedan : {0, 1, PerTypeLimit + 1}, bike : {0, 1}, auto : {0, 1},
     truck : {0, 1}, bus : {0, 1}]

InitMix ==
    /\ \E n \in SimNetworks :
         /\ network = n.network
         /\ nodeMap = n.nodeMap
         /\ adjacencyList = n.adjacencyList
    /\ \E c \in Configs, mix \in FleetMixes :
         /\ c.duration.tenths = 3 /\ c.weather = "clear" /\ c.enableFlocking
         /\ config = [c EXCEPT !.fleetMix = mix]
    /\ NewEngine

NextMix == Start \/ Stop

SpecMix == InitMix /\ [][NextMix]_vars

-----------------------------------------------------------------------------
(* One run from start() to completion on a grid of one cell, in any      *)
(* weather, with PhysicsEngine calls on its vehicles between frames       *)

DynNetworks ==
    {generateUrbanNetwork(EmptyMap, GridSize, GridSize, GridSize, {}, diag) :
        diag \in SUBSET Cells(GridSize, GridSize, GridSize)}

InitDyn ==
    /\ \E n \in DynNetworks :
         /\ network = n.network
         /\ nodeMap = n.nodeMap
         /\ adjacencyList = n.adjacencyList
    /\ config \in {c \in Configs : c.duration.tenths = 10}
    /\ \E vs \in createVehicles(config) : EngineIs(start(NewEngineState, vs, "return"))
    /\ now = 0
    /\ batch = {}
    /\ physCalls = 0
    /\ NewFlocking
    /\ lastPath = NoPath
    /\ lastOp = "start"

\* The frames of a run whose observers return.
RunFrame == FrameWith({"return"}, {"return"})

NextDyn == RunFrame \/ ApplyAcceleration \/ ApplyBraking \/ UpdatePosition

SpecDyn == InitDyn /\ [][NextDyn]_vars

-----------------------------------------------------------------------------
(* A FlockingEngine on the vehicle array of an engine: its caller builds  *)
(* and clears the spatial grid, asks for neighbours and moves vehicles    *)

\* Where the vehicles are: two cells of the spatial grid apart, either side
\* of a cell border, and one cell row at two heights.
FlockPoints ==
    {[x |-> 0, y |-> 0], [x |-> FlockGridSize - 10, y |-> 0],
     [x |-> FlockGridSize, y |-> 0], [x |-> FlockGridSize, y |-> 6 * PosScale]}

\* The radii neighbours are asked for: none, within a cell, a cell, more.
FlockRadii == {0, 5 * PosScale, FlockGridSize, 25 * PosScale}

\* The types of the first vehicle of the array: one of each flocking
\* behaviour (normal, aggressive, conservative).
FlockTypes == {"sedan", "bike", "truck"}

\* The k-th vehicle of the array: a vehicle of the type at p on a route of
\* two nodes, standing or driving east at its target speed.
FlockVehicle(k, type, p, driving) ==
    LET v == NewVehicle(k - 1, type, [position |-> [x |-> 0, y |-> 0]],
                        <<<<0, 0>>, <<1, 0>>>>)
    IN  [v EXCEPT !.position = p,
                  !.velocity = IF driving
                                 THEN [vx |-> v.targetSpeed, vy |-> 0,
                                       speed |-> v.targetSpeed, heading |-> 0]
                                 ELSE @]

\* The arrays of FlockSize vehicles, all standing or all driving, the
\* first of any of the types and the others sedans.
FlockFleets ==
    {[k \in 1 .. FlockSize |->
        FlockVehicle(k, IF k = 1 THEN type ELSE "sedan", ps[k], driving)] :
        ps \in [1 .. FlockSize -> FlockPoints], driving \in BOOLEAN,
        type \in FlockTypes}

InitFlock ==
    /\ network = NewNetworkEngine.network
    /\ nodeMap = NewNetworkEngine.nodeMap
    /\ adjacencyList = NewNetworkEngine.adjacencyList
    /\ config \in {c \in Configs : c.duration.tenths = 3 /\ c.weather = "clear"
                                      /\ c.enableFlocking}
    /\ \E vs \in FlockFleets : EngineIs([NewEngineState EXCEPT !.vehicles = vs])
    /\ now = 0
    /\ batch = {}
    /\ physCalls = 0
    /\ NewFlocking
    /\ lastPath = NoPath
    /\ lastOp = "new"

FlockCall(grid, found, op) ==
    /\ spatialGrid' = grid
    /\ lastNeighbors' = found
    /\ lastOp' = op
    /\ UNCHANGED <<netVars, config, engVars, hostVars, histVars, physCalls,
                   lastPath, optVars>>

BuildSpatialGrid == FlockCall(buildSpatialGrid(vehicles), lastNeighbors, "buildSpatialGrid")

ClearSpatialGrid == FlockCall(clearSpatialGrid, lastNeighbors, "clearSpatialGrid")

GetNeighbors ==
    \E i \in DOMAIN vehicles, radius \in FlockRadii :
      FlockCall(spatialGrid,
                [vehicle |-> i, radius |-> radius,
                 neighbors |-> getNeighbors(spatialGrid, vehicles, i, radius)],
                "getNeighbors")

\* The weights of the configuration, as applyFlocking takes them.
FlockingWeights(cfg) ==
    [cohesion |-> cfg.flockingParams.cohesionWeight,
     alignment |-> cfg.flockingParams.alignmentWeight,
     separation |-> cfg.flockingParams.separationWeight]

\* A caller holding the vehicle array asks for the steering of one vehicle:
\* the grid is built if it is empty, and the neighbours that contribute are
\* kept.
ApplyFlocking ==
    \E i \in DOMAIN vehicles, radius \in FlockRadii :
      LET r == applyFlocking(spatialGrid, vehicles, i, FlockingWeights(config), radius)
      IN  FlockCall(r.spatialGrid,
                    [vehicle |-> i, radius |-> radius, neighbors |-> r.neighbors],
                    "applyFlocking")

NextFlock ==
    \/ BuildSpatialGrid
    \/ ClearSpatialGrid
    \/ GetNeighbors
    \/ ApplyFlocking
    \/ UpdatePosition

SpecFlock == InitFlock /\ [][NextFlock]_vars

-----------------------------------------------------------------------------
(* A run that keeps ticking: the ticks of a run whose duration lies beyond *)
(* them, with the random draws of every respawn treated fairly            *)

\* The run after start() on a grid of one cell, its duration out of reach.
InitLive ==
    /\ \E n \in DynNetworks :
         /\ network = n.network
         /\ nodeMap = n.nodeMap
         /\ adjacencyList = n.adjacencyList
    /\ config \in {c \in Configs : c.duration.tenths = 10 /\ c.enableFlocking}
    /\ \E vs \in createVehicles(config) : EngineIs(start(NewEngineState, vs, "return"))
    /\ now = 0
    /\ batch = {}
    /\ physCalls = 0
    /\ NewFlocking
    /\ lastPath = NoPath
    /\ lastOp = "start"

\* fuelConsumed only grows and update() never reads it: it is followed for
\* the fuel of LiveTicks ticks at one unit of speed and held from there on.
HeldReadings(v) == [v EXCEPT !.fuelConsumed = Min(@, LiveTicks * SpeedScale)]

\* A frame of the run in which the throttle lets a tick through and the
\* time has not reached the duration: update(), currentTime += 0.1 and the
\* onUpdate call of an observer that returns.  The clock and the counts are
\* followed for LiveTicks ticks and held from there on, as are the host's
\* clock and frame ids; update() reads none of them.
LiveTick ==
    /\ isRunning
    /\ batch = {}
    /\ \E vs2 \in update(vehicles, config) :
         vehicles' = [k \in DOMAIN vs2 |-> HeldReadings(vs2[k])]
    /\ currentTime' = IF ticks[runs] < LiveTicks
                        THEN DblAdd(currentTime, DblTenth) ELSE currentTime
    /\ ticks' = [ticks EXCEPT ![runs] = Min(@ + 1, LiveTicks)]
    /\ updates' = [updates EXCEPT ![runs] = Min(@ + 1, LiveTicks)]
    /\ lastOp' = "tick"
    /\ UNCHANGED <<netVars, config, isRunning, animationId, lastUpdateTime,
                   hostVars, runs, initialUpdates, completions, stopped, result,
                   physCalls, lastPath, flockVars, optVars>>

\* The tick respawns vehicle i.
RespawnIn(i) ==
    /\ LiveTick
    /\ i \in DOMAIN vehicles
    /\ vehicles[i].currentEdgeIndex >= Len(vehicles[i].route) - 1
    /\ vehicles'[i].currentEdgeIndex = 0

\* The most vehicles createVehicles returns.
MaxFleet == Len(VehicleTypes) * Max(FleetCount, 1)

NextLive == LiveTick

\* The run keeps ticking, and a respawn that could find a path in tick
\* after tick does find one: Math.random() does not avoid the draws that
\* succeed forever.
SpecLive ==
    /\ InitLive
    /\ [][NextLive]_vars
    /\ WF_vars(LiveTick)
    /\ \A i \in 1 .. MaxFleet : SF_vars(RespawnIn(i))

-----------------------------------------------------------------------------
(* A QuantumOptimizer: its caller feeds it metrics and asks for weights   *)

InitOpt ==
    /\ network = NewNetworkEngine.network
    /\ nodeMap = NewNetworkEngine.nodeMap
    /\ adjacencyList = NewNetworkEngine.adjacencyList
    /\ config \in {c \in Configs : c.duration.tenths = 3 /\ c.weather = "clear"
                                      /\ c.enableFlocking}
    /\ EngineIs(NewEngineState)
    /\ now = 0
    /\ batch = {}
    /\ physCalls = 0
    /\ spatialGrid = EmptyGrid
    /\ lastNeighbors = NoNeighbors
    /\ \E a \in CoherenceDraws, b \in CoherenceDraws :
         coherenceMatrix = initializeCoherenceMatrix(a, b)
    /\ lastWeights = NoWeights
    /\ lastPath = NoPath
    /\ lastOp = "new"

\* The metrics updateCoherence is called with: no flow, a flow of 1 and a
\* flow of 201, at congestion 0 and 1.
OptMetrics == [flow : {0, 100, 20100}, congestion : {0, 100}]

\* The base weights optimizeParameters is called with: below, in and above
\* the range of the result, in every combination.
OptWeights ==
    [cohesion : {-1000, 0, 1000, 10000}, alignment : {800}, separation : {0, 3000}]

\* The traffic densities and average speeds: none, below and above the
\* values the state vector saturates at.
OptDensities == {0, 50, 250}
OptSpeeds == {0, 30, 90}

OptCall(matrix, weights, op) ==
    /\ coherenceMatrix' = matrix
    /\ lastWeights' = weights
    /\ lastOp' = op
    /\ UNCHANGED <<netVars, config, engVars, hostVars, histVars, physCalls,
                   lastPath, flockVars>>

UpdateCoherence ==
    \E metrics \in OptMetrics :
      OptCall(updateCoherence(coherenceMatrix, metrics), NoWeights, "updateCoherence")

OptimizeParameters ==
    \E baseWeights \in OptWeights, trafficDensity \in OptDensities,
       averageSpeed \in OptSpeeds :
      OptCall(coherenceMatrix,
              optimizeParameters(coherenceMatrix, baseWeights, trafficDensity, averageSpeed),
              "optimizeParameters")

NextOpt == UpdateCoherence \/ OptimizeParameters

SpecOpt == InitOpt /\ [][NextOpt]_vars

-----------------------------------------------------------------------------
(* Paths: the reference the results of findShortestPath are held against *)

\* The ids of the nodes of a network.
NetIds(net) == {net.nodes[i].id : i \in DOMAIN net.nodes}

\* An edge of the network joins a to b: an edge from a to b, or a two-way
\* edge (oneWay = false) from b to a.
Joined(net, a, b) ==
    \E i \in DOMAIN net.edges :
       \/ net.edges[i].from = a /\ net.edges[i].to = b
       \/ ~net.edges[i].oneWay /\ net.edges[i].from = b /\ net.edges[i].to = a

RECURSIVE RefBfs(_, _, _, _, _)
\* Breadth-first search over the edge set by levels: the number of edges of
\* a shortest path from the nodes of level d to b, or -1.
RefBfs(net, level, seen, b, d) ==
    IF b \in level THEN d
    ELSE IF level = {} THEN -1
    ELSE LET next == {n \in NetIds(net) \ seen : \E m \in level : Joined(net, m, n)}
         IN  RefBfs(net, next, seen \cup next, b, d + 1)

\* The fewest edges of a path from a to b in the network, -1 if there is none.
RefDist(net, a, b) ==
    IF a \notin NetIds(net) \/ b \notin NetIds(net) THEN -1
    ELSE RefBfs(net, {a}, {a}, b, 0)

\* p is a path of the network from a to b.
IsPath(net, p, a, b) ==
    /\ Len(p) >= 1
    /\ p[1] = a
    /\ p[Len(p)] = b
    /\ \A k \in 1 .. Len(p) - 1 : Joined(net, p[k], p[k + 1])

-----------------------------------------------------------------------------
(* NetworkEngine.findShortestPath *)

\* C1: for every pair of nodes (a, b) of the network between which a path
\* exists, findShortestPath(a, b) returns a sequence that starts at a, ends
\* at b, whose consecutive pairs are joined by an edge of the network and
\* whose edge count is the minimum over all paths from a to b.
C1_ShortestPath ==
    lastPath.asked /\ RefDist(network, lastPath.fromId, lastPath.toId) >= 0
      => /\ IsPath(network, lastPath.path, lastPath.fromId, lastPath.toId)
         /\ Len(lastPath.path) - 1 = RefDist(network, lastPath.fromId, lastPath.toId)

\* A call between two joined nodes of the current network has returned.
C1_Asked ==
    /\ lastPath.asked
    /\ RefDist(network, lastPath.fromId, lastPath.toId) >= 1
    /\ lastPath.path # NULL

\* What C2 requires of the result of the call just made.
NoPathResult ==
    /\ RefDist(network, lastPath.fromId, lastPath.toId) < 0 => lastPath.path = NULL
    /\ lastPath.fromId = lastPath.toId /\ lastPath.fromId \in NetIds(network)
         => lastPath.path = <<lastPath.fromId>>

\* C2: findShortestPath returns null whenever fromId or toId is not a node
\* of the current network or no path joins them, and [fromId] when fromId =
\* toId and the node exists; every call returns and leaves the network, the
\* node map and the adjacency list unchanged.
C2_NoPath ==
    [][lastOp' = "findShortestPath"
         => lastPath'.asked /\ NoPathResult' /\ UNCHANGED netVars]_vars

\* A call with an id that no node of the current network has returned null.
C2_Absent ==
    /\ lastPath.asked
    /\ lastPath.fromId \notin NetIds(network)
    /\ lastPath.path = NULL

-----------------------------------------------------------------------------
(* Speed and fuel *)

\* C3: for all ticks of a run and all vehicles, velocity.speed never
\* exceeds kmhToUnits(maxSpeed) of the vehicle's type: after every tick in
\* every weather, and after every applyAcceleration and applyBraking call.
C3_SpeedCap ==
    \A i \in DOMAIN vehicles :
       vehicles[i].velocity.speed <= kmhToUnits(VEHICLE_TYPES[vehicles[i].type].maxSpeed)

\* applyAcceleration was asked for more than the type's top speed and left
\* the vehicle at exactly that speed.
C3_Clamped ==
    /\ lastOp = "applyAcceleration"
    /\ \E i \in DOMAIN vehicles :
          /\ vehicles[i].state = "accelerating"
          /\ vehicles[i].velocity.speed
               = kmhToUnits(VEHICLE_TYPES[vehicles[i].type].maxSpeed)

\* C10: for every vehicle, fuelConsumed is non-decreasing across any
\* sequence of ticks, respawns (successful or failed) and PhysicsEngine
\* calls: no operation of a run lowers or resets it.
C10_FuelMonotone ==
    [][\A i \in DOMAIN vehicles :
          /\ i \in DOMAIN vehicles'
          /\ vehicles'[i].fuelConsumed >= vehicles[i].fuelConsumed]_vars

\* A vehicle that drove, reached the end of its route and was respawned
\* (its distance is back at zero) has kept its fuel, and applyAcceleration
\* has just added to it.
C10_Respawned ==
    /\ lastOp = "applyAcceleration"
    /\ ticks[1] >= 4
    /\ \E i \in DOMAIN vehicles :
          /\ vehicles[i].distanceTraveled = 0
          /\ vehicles[i].fuelConsumed > vehicles[i].targetSpeed

-----------------------------------------------------------------------------
(* The run: ticks, completion, stop() and start() *)

\* C4: a run started with duration D executes exactly D / 0.1 ticks (10 for
\* D = 1.0), each delivering one update callback, and then invokes the
\* completion callback exactly once; no tick and no update callback occurs
\* after completion.  Stated of the runs nobody called stop() on.
C4_TickCount ==
    stopped = {} =>
      \A r \in 1 .. runs :
         /\ updates[r] = ticks[r]
         /\ ticks[r] <= config.duration.tenths
         /\ completions[r] <= 1
         /\ completions[r] = 1 => ticks[r] = config.duration.tenths
         /\ r < runs => completions[r] = 1

\* A run of duration 1.0 has completed.
C4_Completed ==
    /\ stopped = {}
    /\ config.duration.tenths = 10
    /\ runs >= 1
    /\ completions[1] = 1

\* C5: stop() may be called in any lifecycle state without error; calling
\* it twice in a row leaves the engine as calling it once does, and it
\* never invokes an observer callback.
C5_StopIdempotent ==
    LET once == stop(EngineState)
    IN  /\ stop(once) = once
        /\ ~once.threw
        /\ ~once.isRunning
        /\ once.animationId = NoFrame
        /\ once.completions = completions
        /\ once.updates = updates
        /\ once.initialUpdates = initialUpdates

\* stop() has been called on an engine that is not running, after one run
\* was stopped while it ran and another ran to completion.
C5_StoppedAgain ==
    /\ lastOp = "stop"
    /\ runs = MaxRuns
    /\ runs \notin stopped
    /\ stopped # {}
    /\ completions[runs] = 1

\* C6: once stop() has been called on a running engine, no further tick is
\* dispatched for that run and no further update callback is started for
\* it; while the stopped run is the engine's last, the vehicles and
\* currentTime are not mutated.
C6_NoTickAfterStop ==
    [][/\ \A r \in stopped : ticks'[r] = ticks[r] /\ updates'[r] = updates[r]
       /\ runs \in stopped /\ runs' = runs => UNCHANGED <<vehicles, currentTime>>]_vars

\* An observer called stop() from inside its update callback, and the frame
\* that tick had requested has since come and gone.
C6_StoppedInTick ==
    /\ runs = 1
    /\ 1 \in stopped
    /\ updates[1] >= 1
    /\ pending = {}
    /\ lastOp = "frame"

\* C7: when an observer callback throws, the loop is not aborted: after
\* every callback, the initial one of start() included, the engine is
\* either running with its next tick scheduled or not running.
C7_LoopSurvives ==
    isRunning => animationId # NoFrame /\ \E f \in pending \cup batch : f.id = animationId

\* The initial update callback of start() has thrown: the call ended in
\* the exception, on an engine that had already ticked through an earlier
\* run whose callbacks were free to throw.
C7_InitialThrew ==
    /\ lastOp = "startThrew"
    /\ runs = MaxRuns
    /\ updates[1] >= 1

\* C8: when start() is called with a network that has no nodes or no entry
\* nodes, the run does not begin: the engine does not enter the running
\* state, no tick is executed and no callback is invoked.
C8_NoNetworkNoRun ==
    Len(network.nodes) = 0 \/ Len(EntryNodes) = 0
      => /\ ~isRunning
         /\ \A r \in 1 .. MaxRuns :
               /\ ticks[r] = 0
               /\ updates[r] = 0
               /\ initialUpdates[r] = 0
               /\ completions[r] = 0

\* start() has been called on an engine whose network has no nodes.
C8_Started ==
    /\ Len(network.nodes) = 0
    /\ lastOp = "start"

\* C9: start() called while the engine is running is a no-op: the vehicle
\* array, currentTime, the pending frame and the observers' counts are
\* unchanged, and no further loop is scheduled.
C9_StartWhileRunning ==
    [][isRunning /\ lastOp' \in {"start", "startThrew"}
         => UNCHANGED <<engVars, hostVars, histVars>>]_vars

\* start() has been called on an engine in the middle of a run.
C9_Restarted ==
    /\ lastOp = "start"
    /\ isRunning
    /\ pending # {}
    /\ ticks[runs] >= 1

\* C11: after buildSpatialGrid(vehicles) and before any vehicle moves, the
\* neighbour query for a vehicle v and a radius R returns exactly the
\* vehicles with another id within distance R of v, the brute-force answer,
\* vehicles at v's own position included.
C11_NeighborsExact ==
    (lastOp = "getNeighbors" /\ spatialGrid = buildSpatialGrid(vehicles)) =>
        LET i == lastNeighbors.vehicle
            R == lastNeighbors.radius
            found == lastNeighbors.neighbors
        IN  {found[n].vehicle : n \in DOMAIN found}
              = {j \in DOMAIN vehicles :
                   /\ vehicles[j].id # vehicles[i].id
                   /\ Distance2(vehicles[i].position, vehicles[j].position) <= R * R}

\* A query on a fresh grid for a vehicle that shares its position with another.
C11_Coincident ==
    /\ lastOp = "getNeighbors"
    /\ spatialGrid = buildSpatialGrid(vehicles)
    /\ lastNeighbors.radius > 0
    /\ \E j \in DOMAIN vehicles :
         /\ j # lastNeighbors.vehicle
         /\ vehicles[j].position = vehicles[lastNeighbors.vehicle].position

\* The conditions under which update() calls respawnVehicle at the top of
\* its loop body: the vehicle is at the last node of its route, or the next
\* node of its route is not in the node map.
RespawnEligible(v) ==
    \/ v.currentEdgeIndex >= Len(v.route) - 1
    \/ v.route[v.currentEdgeIndex + 2] \notin DOMAIN nodeMap

\* w is v after a respawn that found a path: at an entry node, on a route
\* of at least two nodes from it, at index 0 with no distance, and nothing
\* else touched.
RespawnedFrom(v, w) ==
    /\ Len(w.route) >= 2
    /\ \E entry \in Range(EntryNodes) :
         /\ w.route[1] = entry.id
         /\ w = [v EXCEPT !.position = [x |-> entry.position.x * PosScale,
                                        y |-> entry.position.y * PosScale],
                          !.route = w.route,
                          !.currentEdgeIndex = 0,
                          !.distanceTraveled = 0]

\* C12: in every tick, a vehicle for which respawnVehicle is called and
\* finds no path is left as it was when the call was made: a vehicle that
\* was eligible before the tick is identical after it (position, route,
\* currentEdgeIndex, distanceTraveled, velocity, fuelConsumed and the rest)
\* unless it was respawned, and a vehicle that reached its last node in the
\* tick differs only by the step of currentEdgeIndex that made it eligible.
\* Such a vehicle is eligible after the tick, so the next tick calls
\* respawnVehicle for it again.
C12_FailedRespawnUntouched ==
    [][ticks' # ticks =>
         \A i \in DOMAIN vehicles :
            LET v == vehicles[i]
                w == vehicles'[i]
            IN  /\ RespawnEligible(v) => (w = v \/ RespawnedFrom(v, w))
                /\ (~RespawnEligible(v) /\ RespawnEligible(w)) =>
                      w = [v EXCEPT !.currentEdgeIndex = @ + 1]]_vars

\* After a tick later than the first a vehicle that has driven is at the end
\* of its route: the respawn of this tick found no path for it.
C12_RespawnFailed ==
    /\ lastOp = "frame"
    /\ ticks[1] >= 2
    /\ \E i \in DOMAIN vehicles :
         /\ RespawnEligible(vehicles[i])
         /\ vehicles[i].distanceTraveled > 0

\* C13: in every state of a run every vehicle that is not waiting has
\* 0 <= currentEdgeIndex < route.length.
C13_IndexInRoute ==
    \A i \in DOMAIN vehicles :
       vehicles[i].state # "waiting" =>
          /\ 0 <= vehicles[i].currentEdgeIndex
          /\ vehicles[i].currentEdgeIndex < Len(vehicles[i].route)

\* After a tick a vehicle stands on the last node of a route of three
\* nodes, its index at the largest value the route allows: it has passed
\* the middle node and its respawn at the end has failed.
C13_AtLastNode ==
    /\ lastOp = "frame"
    /\ \E i \in DOMAIN vehicles :
         /\ Len(vehicles[i].route) >= 3
         /\ vehicles[i].currentEdgeIndex = Len(vehicles[i].route) - 1

\* C14: while the run keeps ticking and the draws of respawnVehicle are
\* fair, every vehicle at the last node of its route is eventually on a
\* route of at least two nodes with currentEdgeIndex 0: it was respawned.
C14_EventuallyRespawned ==
    \A i \in 1 .. MaxFleet :
       (i \in DOMAIN vehicles
          /\ vehicles[i].currentEdgeIndex >= Len(vehicles[i].route) - 1)
       ~> (i \in DOMAIN vehicles
             /\ vehicles[i].currentEdgeIndex = 0
             /\ Len(vehicles[i].route) >= 2)

\* A vehicle that has driven to the end of a route has been respawned by
\* the last tick: it is back at index 0 with no distance, its fuel kept.
C14_RespawnedInTick ==
    /\ lastOp = "tick"
    /\ \E i \in DOMAIN vehicles :
         /\ vehicles[i].currentEdgeIndex = 0
         /\ vehicles[i].distanceTraveled = 0
         /\ vehicles[i].fuelConsumed > 0
         /\ Len(vehicles[i].route) >= 2

\* The velocity update() gives a vehicle it drives: along the heading from
\* the vehicle to the next node of its route.
DirectToTarget(v, cfg) ==
    LET targetNode == nodeMap[v.route[v.currentEdgeIndex + 2]]
        dx == targetNode.position.x * PosScale - v.position.x
        dy == targetNode.position.y * PosScale - v.position.y
    IN  Drive(v, dx, dy, cfg).velocity

\* What applyFlocking returns for vehicle i of the array under the
\* configured weights and perception radius, on a grid built for the call.
Steering(vs, i, cfg) ==
    applyFlocking(EmptyGrid, vs, i,
                  [cohesion |-> cfg.flockingParams.cohesionWeight,
                   alignment |-> cfg.flockingParams.alignmentWeight,
                   separation |-> cfg.flockingParams.separationWeight],
                  cfg.flockingParams.perceptionRadius * PosScale)

\* C15: in a tick of a run with config.enableFlocking, the velocity given
\* to a vehicle that is driven comes from the flocking steering, which
\* depends on its neighbours: where the steering for the vehicle has
\* neighbours in range and asks for another velocity than the vehicle has,
\* the velocity applied is not the plain direct-to-target velocity that a
\* run without flocking applies.
C15_FlockingSteers ==
    [][(ticks' # ticks /\ config.enableFlocking) =>
         \A i \in DOMAIN vehicles :
            LET v == vehicles[i]
                w == vehicles'[i]
                f == Steering(vehicles, i, config)
            IN  (/\ w.distanceTraveled > v.distanceTraveled
                 /\ Len(f.neighbors) > 0
                 /\ f.desiredVelocity # [vx |-> v.velocity.vx, vy |-> v.velocity.vy])
                => w.velocity # DirectToTarget(v, config)]_vars

\* After the second tick of a run with flocking enabled the vehicles have
\* left the entry node at their own speeds: one of them has neighbours in
\* range and a steering that asks for another velocity than it has.
C15_NeighborsInRange ==
    /\ lastOp = "frame"
    /\ config.enableFlocking
    /\ isRunning
    /\ ticks[runs] >= 2
    /\ \E i \in DOMAIN vehicles :
         LET f == Steering(vehicles, i, config)
         IN  /\ Len(f.neighbors) > 0
             /\ f.desiredVelocity # [vx |-> vehicles[i].velocity.vx,
                                     vy |-> vehicles[i].velocity.vy]

\* C16: the speed a vehicle is driven at in a tick is its target speed
\* times the friction multiplier of the weather, 1.0 for clear, 0.7 for
\* rain and 0.85 for fog (WEATHER_CONDITIONS), so that fog drives faster
\* than rain.
C16_WeatherSpeed ==
    [][ticks' # ticks =>
         \A i \in DOMAIN vehicles :
            vehicles'[i].distanceTraveled > vehicles[i].distanceTraveled =>
               vehicles'[i].velocity.speed
                 = (vehicles[i].targetSpeed * WEATHER_CONDITIONS[config.weather].friction100)
                      \div 100]_vars

\* A tick of a run in fog has driven a vehicle.
C16_DrivenInFog ==
    /\ lastOp = "frame"
    /\ config.weather = "fog"
    /\ ticks[1] = 1
    /\ \E i \in DOMAIN vehicles : vehicles[i].distanceTraveled > 0

\* C17: the result bundle handed to onComplete holds the metrics history
\* of the run: one snapshot for every tick executed, in tick order, the
\* last of them equal to finalMetrics.
C17_MetricsHistory ==
    completions[1] > 0 =>
       /\ Len(result.metrics) = ticks[1]
       /\ \A k \in 1 .. Len(result.metrics) - 1 :
             ~DblGeq(result.metrics[k].timestamp, result.metrics[k + 1].timestamp)
       /\ Len(result.metrics) > 0
       /\ result.metrics[Len(result.metrics)] = result.finalMetrics

\* The run has completed after its ticks and onComplete has received the
\* bundle, whose final metrics count the vehicles of the run.
C17_Completed ==
    /\ completions[1] = 1
    /\ ticks[1] > 1
    /\ result.finalMetrics.activeVehicles > 0
    /\ result.endTime = currentTime

\* The edges of the network a node is an end of.
Degree(net, id) ==
    Cardinality({k \in DOMAIN net.edges : net.edges[k].from = id \/ net.edges[k].to = id})

\* C18: after generateUrbanNetwork every node of the network has degree at
\* least 1, and from every entry node findShortestPath returns a path of at
\* least two nodes to at least one other node.
C18_Connected ==
    Len(network.nodes) > 0 =>
       /\ \A n \in Range(network.nodes) : Degree(network, n.id) >= 1
       /\ \A entry \in Range(EntryNodes) :
             \E n \in Range(network.nodes) :
                /\ n.id # entry.id
                /\ findShortestPath(nodeMap, adjacencyList, entry.id, n.id) # NULL
                /\ Len(findShortestPath(nodeMap, adjacencyList, entry.id, n.id)) >= 2

\* A grid has been generated whose far corner is an entry node with roads
\* to it: every node has an edge, one entry has no road out.
C18_CornerEntry ==
    /\ Len(network.nodes) > 1
    /\ \A n \in Range(network.nodes) : Degree(network, n.id) >= 1
    /\ \E entry \in Range(EntryNodes) :
         \A n \in Range(network.nodes) :
            n.id # entry.id =>
               findShortestPath(nodeMap, adjacencyList, entry.id, n.id) = NULL

DistinctIds(vs) == \A i, j \in DOMAIN vs : i # j => vs[i].id # vs[j].id

LastSeparation == calculateSeparation(vehicles, lastNeighbors.vehicle, lastNeighbors.neighbors)

\* Vehicle j is the only other vehicle within the perception radius and the
\* adjusted radius of vehicle i, and is closer than the minimum separation
\* of the two types.
OnlyTooClose(i, j, R) ==
    LET d2(k) == Distance2(vehicles[i].position, vehicles[k].position)
        a10 == adjustPerceptionRadius10(vehicles[i].type)
        minSeparation == getMinSeparation(vehicles[i].type, vehicles[j].type)
    IN  /\ j # i
        /\ R > 0
        /\ d2(j) < minSeparation * minSeparation
        /\ d2(j) <= R * R
        /\ 100 * d2(j) <= a10 * a10 * R * R
        /\ \A k \in DOMAIN vehicles \ {i, j} : d2(k) > R * R

\* The dot product of the separation force with position(i) - position(j).
Repulsion(i, j) ==
    LastSeparation.vx * (vehicles[i].position.x - vehicles[j].position.x)
      + LastSeparation.vy * (vehicles[i].position.y - vehicles[j].position.y)

\* C21: when applyFlocking is called for a vehicle whose only neighbour is
\* closer than the minimum separation of their types, at another or at the
\* same position, and the separation weight is positive, the separation
\* force is not zero and points from the neighbour to the vehicle.
C21_Repulsive ==
    (lastOp = "applyFlocking" /\ spatialGrid = buildSpatialGrid(vehicles)
       /\ config.flockingParams.separationWeight > 0) =>
        \A j \in DOMAIN vehicles :
            OnlyTooClose(lastNeighbors.vehicle, j, lastNeighbors.radius) =>
                /\ LastSeparation # [vx |-> 0, vy |-> 0]
                /\ vehicles[j].position # vehicles[lastNeighbors.vehicle].position
                     => Repulsion(lastNeighbors.vehicle, j) > 0

\* C21 for two vehicles at different positions only.
C21_RepulsiveApart ==
    (lastOp = "applyFlocking" /\ spatialGrid = buildSpatialGrid(vehicles)
       /\ config.flockingParams.separationWeight > 0) =>
        \A j \in DOMAIN vehicles :
            (/\ OnlyTooClose(lastNeighbors.vehicle, j, lastNeighbors.radius)
             /\ vehicles[j].position # vehicles[lastNeighbors.vehicle].position) =>
                /\ LastSeparation # [vx |-> 0, vy |-> 0]
                /\ Repulsion(lastNeighbors.vehicle, j) > 0

\* applyFlocking was called for a vehicle with one other vehicle at its own
\* position and within the radius.
C21_TooCloseCoincident ==
    /\ lastOp = "applyFlocking"
    /\ spatialGrid = buildSpatialGrid(vehicles)
    /\ \E j \in DOMAIN vehicles :
         /\ OnlyTooClose(lastNeighbors.vehicle, j, lastNeighbors.radius)
         /\ vehicles[j].position = vehicles[lastNeighbors.vehicle].position

\* applyFlocking was called for a vehicle with one other vehicle too close
\* at another position.
C21_TooCloseApart ==
    /\ lastOp = "applyFlocking"
    /\ spatialGrid = buildSpatialGrid(vehicles)
    /\ \E j \in DOMAIN vehicles :
         /\ OnlyTooClose(lastNeighbors.vehicle, j, lastNeighbors.radius)
         /\ vehicles[j].position # vehicles[lastNeighbors.vehicle].position

\* C22: whenever applyFlocking has looked up neighbours, also after
\* vehicles have moved, the spatial grid it looked them up in holds every
\* vehicle in the cell of its current position: a grid that is stale is
\* rebuilt before the query.
C22_GridCurrent ==
    lastOp = "applyFlocking" => spatialGrid = buildSpatialGrid(vehicles)

\* applyFlocking was called after a vehicle had moved to another cell than
\* the one the grid built before the move holds it in.
C22_QueriedAfterMove ==
    /\ lastOp = "applyFlocking"
    /\ physCalls > 0
    /\ \E k \in DOMAIN vehicles :
         \E c \in DOMAIN spatialGrid :
            /\ k \in Range(spatialGrid[c])
            /\ c # getGridKey(vehicles[k].position)

\* C23: the neighbours applyFlocking keeps for a vehicle and a base
\* perception radius R are exactly the other vehicles, at another position,
\* within 0.7 R of an aggressive vehicle, within 1.3 R of a conservative
\* one and within R of a normal one.
C23_AdjustedRadius ==
    (lastOp = "applyFlocking" /\ spatialGrid = buildSpatialGrid(vehicles)) =>
        LET i == lastNeighbors.vehicle
            R == lastNeighbors.radius
            a10 == adjustPerceptionRadius10(vehicles[i].type)
            found == lastNeighbors.neighbors
        IN  {found[n].vehicle : n \in DOMAIN found}
              = {j \in DOMAIN vehicles :
                   /\ vehicles[j].id # vehicles[i].id
                   /\ Distance2(vehicles[i].position, vehicles[j].position) > 0
                   /\ 100 * Distance2(vehicles[i].position, vehicles[j].position)
                        <= a10 * a10 * R * R}

\* applyFlocking was called for a conservative vehicle with another vehicle
\* farther than R and within 1.3 R.
C23_ConservativeBeyondR ==
    /\ lastOp = "applyFlocking"
    /\ spatialGrid = buildSpatialGrid(vehicles)
    /\ VEHICLE_TYPES[vehicles[lastNeighbors.vehicle].type].flockingBehavior = "conservative"
    /\ \E j \in DOMAIN vehicles :
         LET d2 == Distance2(vehicles[lastNeighbors.vehicle].position, vehicles[j].position)
         IN  /\ d2 > lastNeighbors.radius * lastNeighbors.radius
             /\ 100 * d2 <= 169 * lastNeighbors.radius * lastNeighbors.radius

\* applyFlocking was called for an aggressive vehicle with another vehicle
\* within R and farther than 0.7 R, which it did not keep.
C23_AggressiveWithinR ==
    /\ lastOp = "applyFlocking"
    /\ spatialGrid = buildSpatialGrid(vehicles)
    /\ VEHICLE_TYPES[vehicles[lastNeighbors.vehicle].type].flockingBehavior = "aggressive"
    /\ lastNeighbors.neighbors = <<>>
    /\ \E j \in DOMAIN vehicles :
         LET d2 == Distance2(vehicles[lastNeighbors.vehicle].position, vehicles[j].position)
         IN  /\ d2 <= lastNeighbors.radius * lastNeighbors.radius
             /\ 100 * d2 > 49 * lastNeighbors.radius * lastNeighbors.radius

\* The coherence matrix is symmetric.
Symmetric(matrix) ==
    \A i, j \in 1 .. nQubits : matrix[i][j] = matrix[j][i]

\* The diagonal of the coherence matrix is 1 and every other entry lies in
\* [0, 1].
UnitRange(matrix) ==
    \A i, j \in 1 .. nQubits :
        IF i = j THEN matrix[i][j] = 1000
                 ELSE 0 <= matrix[i][j] /\ matrix[i][j] <= 1000

\* C24: from construction on and after any updateCoherence and
\* optimizeParameters calls the coherence matrix is symmetric, has 1 on its
\* diagonal and entries in [0, 1] elsewhere, and optimizeParameters leaves
\* the matrix as it is.
C24_FeedbackMatrix ==
    /\ [](Symmetric(coherenceMatrix) /\ UnitRange(coherenceMatrix))
    /\ [][lastOp' = "optimizeParameters" => coherenceMatrix' = coherenceMatrix]_vars

\* An optimizer after construction whose draws above and below the diagonal
\* differ.
C24_DrawsDiffer ==
    /\ lastOp = "new"
    /\ \E i, j \in 1 .. nQubits : coherenceMatrix[i][j] # coherenceMatrix[j][i]
    /\ UnitRange(coherenceMatrix)

\* The frame callbacks requested and not yet run or cancelled: those of
\* the frame being run and those of later frames.
Alive == pending \cup batch

\* C25: whatever start(), stop(), the frames and the observers do, at most
\* one frame callback that will tick is pending while the engine runs, and
\* between the frames a running engine has exactly one.
C25_OneLoop ==
    /\ isRunning => Cardinality(Alive) <= 1
    /\ (isRunning /\ batch = {}) => Cardinality(pending) = 1

\* The loops of two start() calls both have a frame callback pending on a
\* running engine.
C25_TwoLoops ==
    /\ isRunning
    /\ batch = {}
    /\ \E f, g \in pending : f.loop # g.loop

\* The route is a path of the network as findShortestPath returns it: at
\* least two nodes, from an entry node, over nodes of the network, every
\* step along an edge, and the path the search finds between its ends.
RouteOfNetwork(route) ==
    /\ Len(route) >= 2
    /\ \E entry \in Range(EntryNodes) : route[1] = entry.id
    /\ \A k \in DOMAIN route : \E n \in Range(network.nodes) : n.id = route[k]
    /\ \A k \in 1 .. Len(route) - 1 :
          \E e \in Range(network.edges) : e.from = route[k] /\ e.to = route[k + 1]
    /\ route = findShortestPath(nodeMap, adjacencyList, route[1], route[Len(route)])

\* The vehicle is as createVehicles pushes it and as a respawn that found a
\* path leaves it: at the first node of its route, at index 0, no distance.
AtRouteStart(v) ==
    /\ v.position = [x |-> nodeMap[v.route[1]].position.x * PosScale,
                     y |-> nodeMap[v.route[1]].position.y * PosScale]
    /\ v.currentEdgeIndex = 0
    /\ v.distanceTraveled = 0

\* C26: in every state of a run the route of every vehicle is a path that
\* findShortestPath returns on the network (at least two nodes, the first
\* an entry node, all nodes in the network, every step an edge); right
\* after start() has created the vehicles, and after a tick that gave a
\* vehicle a new route or set its index back, the vehicle is at the first
\* node of its route with currentEdgeIndex 0 and distanceTraveled 0.
C26_RoutesValid ==
    /\ [](\A i \in DOMAIN vehicles :
            /\ RouteOfNetwork(vehicles[i].route)
            /\ lastOp = "start" => AtRouteStart(vehicles[i]))
    /\ [][ticks' # ticks =>
            \A i \in DOMAIN vehicles :
               (\/ vehicles'[i].route # vehicles[i].route
                \/ vehicles'[i].currentEdgeIndex < vehicles[i].currentEdgeIndex)
                  => AtRouteStart(vehicles'[i])]_vars

\* A tick has respawned a vehicle that had driven: it is at the start of
\* its route and has consumed fuel.
C26_Respawned ==
    /\ lastOp = "frame"
    /\ \E i \in DOMAIN vehicles :
         /\ AtRouteStart(vehicles[i])
         /\ vehicles[i].fuelConsumed > 0
         /\ Len(vehicles[i].route) >= 3

\* The vehicle is within the arrival threshold of the next node of its
\* route: dist < 1.5.
WithinThreshold(v) ==
    /\ v.currentEdgeIndex < Len(v.route) - 1
    /\ v.route[v.currentEdgeIndex + 2] \in DOMAIN nodeMap
    /\ LET targetNode == nodeMap[v.route[v.currentEdgeIndex + 2]]
           dx == targetNode.position.x * PosScale - v.position.x
           dy == targetNode.position.y * PosScale - v.position.y
       IN  4 * (dx * dx + dy * dy) < 9 * PosScale * PosScale

\* C27: unless a tick respawns the vehicle (its index goes back), the tick
\* leaves currentEdgeIndex as it is or counts it up by 1; it counts it up
\* only for a vehicle within the arrival threshold of the next node of its
\* route and then leaves position, velocity, distanceTraveled and
\* fuelConsumed as they are; nothing but a tick changes the index.
C27_IndexStepwise ==
    [][\A i \in DOMAIN vehicles :
          LET v == vehicles[i]
              w == vehicles'[i]
          IN  IF ticks' = ticks THEN w.currentEdgeIndex = v.currentEdgeIndex
              ELSE \/ w.currentEdgeIndex < v.currentEdgeIndex
                   \/ w.currentEdgeIndex = v.currentEdgeIndex
                   \/ /\ w.currentEdgeIndex = v.currentEdgeIndex + 1
                      /\ WithinThreshold(v)
                      /\ w.position = v.position
                      /\ w.velocity = v.velocity
                      /\ w.distanceTraveled = v.distanceTraveled
                      /\ w.fuelConsumed = v.fuelConsumed]_vars

\* After a tick a vehicle has passed the second node of a route of three
\* nodes and is on its way to the third.
C27_PassedMiddleNode ==
    /\ lastOp = "frame"
    /\ \E i \in DOMAIN vehicles :
         /\ Len(vehicles[i].route) >= 3
         /\ vehicles[i].currentEdgeIndex = 1
         /\ vehicles[i].distanceTraveled > 0

\* C28: after any generateUrbanNetwork calls the node lookup holds exactly
\* the nodes of the current network: getNode(id) is defined if and only if
\* id is the id of a node of getNetwork().nodes, and the two ends of every
\* edge are such nodes.
C28_NodeMapCurrent ==
    /\ \A id \in NodeIds : getNode(nodeMap, id) # NULL <=> id \in NetIds(network)
    /\ \A e \in Range(network.edges) :
          e.from \in NetIds(network) /\ e.to \in NetIds(network)

\* generateUrbanNetwork has been called for a grid that lacks a node of the
\* grid generated before.
C28_Regenerated ==
    /\ lastOp = "generateUrbanNetwork"
    /\ \E id \in DOMAIN nodeMap : id \notin NetIds(network)
    /\ Len(network.nodes) >= 1

\* C29: on a generated network, whose edges are all two-way, path search
\* is symmetric: findShortestPath(a, b) returns a path for two nodes a and
\* b of the network if and only if findShortestPath(b, a) does, and the two
\* paths have the same number of edges.
C29_PathSymmetric ==
    (/\ lastPath.asked
     /\ \A e \in Range(network.edges) : ~e.oneWay
     /\ lastPath.fromId \in NetIds(network)
     /\ lastPath.toId \in NetIds(network)) =>
        LET back == findShortestPath(nodeMap, adjacencyList, lastPath.toId, lastPath.fromId)
        IN  /\ lastPath.path # NULL <=> back # NULL
            /\ lastPath.path # NULL /\ back # NULL => Len(lastPath.path) = Len(back)

\* A call between two different nodes of the current network has returned
\* a path.
C29_PathFound ==
    /\ lastPath.asked
    /\ lastPath.fromId \in NetIds(network)
    /\ lastPath.toId \in NetIds(network)
    /\ lastPath.fromId # lastPath.toId
    /\ lastPath.path # NULL

\* The number of vehicles of the type in the array.
CountOfType(vs, type) == Cardinality({k \in DOMAIN vs : vs[k].type = type})

\* C30: after start() the vehicles of every type are at most as many as
\* config.fleetMix asks for and at most 30; a type with count 0 in the fleet
\* mix has no vehicle.
C30_FleetMixRespected ==
    \A t \in DOMAIN VehicleTypes :
        /\ CountOfType(vehicles, VehicleTypes[t]) <= config.fleetMix[VehicleTypes[t]]
        /\ CountOfType(vehicles, VehicleTypes[t]) <= PerTypeLimit

\* start() has created vehicles under a fleet mix with count 0 for a type.
C30_TypeLeftOut ==
    /\ lastOp = "start"
    /\ Len(vehicles) > 0
    /\ \E t \in DOMAIN VehicleTypes : config.fleetMix[VehicleTypes[t]] = 0

====
